---- MODULE Spec2Model ----
(***************************************************************************)
(* A model of agent-ui: the VM2 structure validator and serializer         *)
(* (src/lib/vm2/parser.js) and the ReAct agent orchestrator                *)
(* (src/unnamed/part_014).                                                 *)
(*                                                                         *)
(* JavaScript values are tagged pairs <<tag, payload>>.  An object's       *)
(* payload is the sequence of its <<key, value>> members in own-property   *)
(* enumeration order (integer-index keys ascending, then the other keys in *)
(* insertion order), so that key order is something the model computes.    *)
(***************************************************************************)
EXTENDS Naturals, Sequences, FiniteSets, TLC

(***************************************************************************)
(* Bounds of the model.                                                    *)
(***************************************************************************)
MaxComponents == 2

(***************************************************************************)
(* JavaScript values.                                                      *)
(***************************************************************************)
Undefined == <<"undefined", 0>>
Null == <<"null", 0>>
Bool(b) == <<"boolean", b>>
Num(n) == <<"number", n>>
Str(s) == <<"string", s>>
Arr(elems) == <<"array", elems>>
Obj(members) == <<"object", members>>

Tag(x) == x[1]
Val(x) == x[2]

\* typeof x === 'object' (true of null, arrays and objects)
TypeofObject(x) == Tag(x) \in {"null", "array", "object"}

\* ToBoolean(x)
Truthy(x) ==
  CASE Tag(x) = "undefined" -> FALSE
    [] Tag(x) = "null" -> FALSE
    [] Tag(x) = "boolean" -> Val(x)
    [] Tag(x) = "number" -> Val(x) # 0
    [] Tag(x) = "string" -> Val(x) # ""
    [] OTHER -> TRUE

(***************************************************************************)
(* Strings, character by character.                                        *)
(***************************************************************************)
Chr(s, i) == SubSeq(s, i, i)

UpperAlpha == "ABCDEFGHIJKLMNOPQRSTUVWXYZ"
LowerAlpha == "abcdefghijklmnopqrstuvwxyz"
DigitChars == "0123456789"
\* the characters of the model's property keys, in UTF-16 code unit order
CodeOrder == " -.0123456789:<=>ABCDEFGHIJKLMNOPQRSTUVWXYZ_abcdefghijklmnopqrstuvwxyz"

IndexIn(alpha, c) ==
  IF \E i \in 1..Len(alpha) : Chr(alpha, i) = c
  THEN CHOOSE i \in 1..Len(alpha) : Chr(alpha, i) = c
  ELSE 0

CharsOf(alpha) == {Chr(alpha, i) : i \in 1..Len(alpha)}
UpperChars == CharsOf(UpperAlpha)
LowerChars == CharsOf(LowerAlpha)
DigitSet == CharsOf(DigitChars)

IsLetter(c) == c \in UpperChars \/ c \in LowerChars
IsDigit(c) == c \in DigitSet
\* \w of a regular expression
IsWordChar(c) == IsLetter(c) \/ IsDigit(c) \/ c = "_"
\* \s of a regular expression, and the characters String.prototype.trim removes
IsSpace(c) == c \in {" ", "\t", "\n", "\r"}

LowerOf == [c \in UpperChars |-> Chr(LowerAlpha, IndexIn(UpperAlpha, c))]
LowerChar(c) == IF c \in UpperChars THEN LowerOf[c] ELSE c

RECURSIVE ToLower(_)
ToLower(s) ==
  IF Len(s) = 0 THEN "" ELSE LowerChar(Chr(s, 1)) \o ToLower(SubSeq(s, 2, Len(s)))

\* str.trim() === ''
TrimIsEmpty(s) == \A i \in 1..Len(s) : IsSpace(Chr(s, i))

\* str.substring(0, n)
Substring0(s, n) == IF Len(s) <= n THEN s ELSE SubSeq(s, 1, n)

\* a < b in the order Array.prototype.sort uses by default (code units)
RECURSIVE StrLess(_, _)
StrLess(a, b) ==
  IF Len(b) = 0 THEN FALSE
  ELSE IF Len(a) = 0 THEN TRUE
  ELSE LET ca == IndexIn(CodeOrder, Chr(a, 1))
           cb == IndexIn(CodeOrder, Chr(b, 1))
       IN IF ca # cb THEN ca < cb
          ELSE StrLess(SubSeq(a, 2, Len(a)), SubSeq(b, 2, Len(b)))

(***************************************************************************)
(* JavaScript objects: own-property order, property reads and writes.      *)
(***************************************************************************)
\* a canonical array index: such keys enumerate first, in ascending order
IsArrayIndex(k) ==
  /\ Len(k) >= 1
  /\ \A i \in 1..Len(k) : IsDigit(Chr(k, i))
  /\ (Len(k) = 1 \/ Chr(k, 1) # "0")

RECURSIVE IndexValue(_)
IndexValue(k) ==
  IF Len(k) = 0 THEN 0
  ELSE 10 * IndexValue(SubSeq(k, 1, Len(k) - 1)) + (IndexIn(DigitChars, Chr(k, Len(k))) - 1)

HasKey(members, k) == \E i \in 1..Len(members) : members[i][1] = k

\* obj[k] = v on a plain object
SetMember(members, k, v) ==
  IF HasKey(members, k)
  THEN [i \in 1..Len(members) |-> IF members[i][1] = k THEN <<k, v>> ELSE members[i]]
  ELSE IF IsArrayIndex(k)
  THEN LET n == Cardinality({i \in 1..Len(members) :
                   /\ IsArrayIndex(members[i][1])
                   /\ IndexValue(members[i][1]) < IndexValue(k)})
       IN SubSeq(members, 1, n) \o <<<<k, v>>>> \o SubSeq(members, n + 1, Len(members))
  ELSE Append(members, <<k, v>>)

\* the decimal string of a small array index
IndexKey(n) ==
  IF n < 10 THEN Chr(DigitChars, n + 1)
  ELSE Chr(DigitChars, (n \div 10) + 1) \o Chr(DigitChars, (n % 10) + 1)

\* Object.keys(x), for x neither null nor undefined
ObjectKeys(x) ==
  CASE Tag(x) = "object" -> [i \in 1..Len(Val(x)) |-> Val(x)[i][1]]
    [] Tag(x) = "array" -> [i \in 1..Len(Val(x)) |-> IndexKey(i - 1)]
    [] Tag(x) = "string" -> [i \in 1..Len(Val(x)) |-> IndexKey(i - 1)]
    [] OTHER -> <<>>

\* x[k] and x.k, for x neither null nor undefined (on which the read throws)
GetProp(x, k) ==
  CASE Tag(x) = "object" ->
         IF HasKey(Val(x), k)
         THEN Val(x)[CHOOSE i \in 1..Len(Val(x)) : Val(x)[i][1] = k][2]
         ELSE Undefined
    [] Tag(x) = "array" ->
         IF IsArrayIndex(k) /\ IndexValue(k) < Len(Val(x))
         THEN Val(x)[IndexValue(k) + 1]
         ELSE Undefined
    [] Tag(x) = "string" ->
         IF IsArrayIndex(k) /\ IndexValue(k) < Len(Val(x))
         THEN Str(Chr(Val(x), IndexValue(k) + 1))
         ELSE Undefined
    [] OTHER -> Undefined

\* reading a property of x throws a TypeError
ReadThrows(x) == Tag(x) \in {"null", "undefined"}

(***************************************************************************)
(* JSON text.  A text is either garbage or the syntax tree of a JSON       *)
(* document, whose object members are in source order and may repeat a key.*)
(***************************************************************************)
JsonText(tree) == <<"json", tree>>
Garbage(position) == <<"garbage", position>>

\* JSON.parse on a well-formed text: members are assigned in source order
RECURSIVE JSONparse(_)
RECURSIVE ParseMembers(_, _)
JSONparse(tree) ==
  CASE Tag(tree) = "array" -> Arr([i \in 1..Len(Val(tree)) |-> JSONparse(Val(tree)[i])])
    [] Tag(tree) = "object" -> Obj(ParseMembers(Val(tree), <<>>))
    [] OTHER -> tree

ParseMembers(ms, acc) ==
  IF Len(ms) = 0 THEN acc
  ELSE ParseMembers(Tail(ms), SetMember(acc, Head(ms)[1], JSONparse(Head(ms)[2])))

\* JSON.stringify(value, null, 2): members in own-property order
RECURSIVE StringifyTree(_)
RECURSIVE StringifyMembers(_)
StringifyTree(x) ==
  CASE Tag(x) = "array" ->
         Arr([i \in 1..Len(Val(x)) |->
                IF Tag(Val(x)[i]) = "undefined" THEN Null ELSE StringifyTree(Val(x)[i])])
    [] Tag(x) = "object" -> Obj(StringifyMembers(Val(x)))
    [] OTHER -> x

StringifyMembers(ms) ==
  IF Len(ms) = 0 THEN <<>>
  ELSE IF Tag(Head(ms)[2]) = "undefined" THEN StringifyMembers(Tail(ms))
  ELSE <<<<Head(ms)[1], StringifyTree(Head(ms)[2])>>>> \o StringifyMembers(Tail(ms))

JSONstringify(x) ==
  IF Tag(x) = "undefined" THEN Garbage(0) ELSE JsonText(StringifyTree(x))

(***************************************************************************)
(* The dangerous-content patterns.  Every pattern carries the i flag, so   *)
(* it is tested against the lower-cased string.                            *)
(***************************************************************************)
At(s, i, lit) == i + Len(lit) - 1 <= Len(s) /\ SubSeq(s, i, i + Len(lit) - 1) = lit

\* /lit/
Contains(s, lit) == \E i \in 1..Len(s) : At(s, i, lit)

\* /lit\s*c/
ContainsThenChar(s, lit, c) ==
  \E i \in 1..Len(s) :
    /\ At(s, i, lit)
    /\ \E j \in (i + Len(lit))..Len(s) :
         /\ Chr(s, j) = c
         /\ \A k \in (i + Len(lit))..(j - 1) : IsSpace(Chr(s, k))

\* \b in front of a word character at position i
BoundaryBefore(s, i) == i = 1 \/ ~IsWordChar(Chr(s, i - 1))

\* /\blit/ for a lit that starts with a word character
ContainsAtWordStart(s, lit) == \E i \in 1..Len(s) : BoundaryBefore(s, i) /\ At(s, i, lit)

\* /lit\b/ for a lit that ends with a word character
ContainsAtWordEnd(s, lit) ==
  \E i \in 1..Len(s) :
    /\ At(s, i, lit)
    /\ (i + Len(lit) > Len(s) \/ ~IsWordChar(Chr(s, i + Len(lit))))

\* /\bon[a-z]+\s*=/
ContainsHandlerAttribute(s) ==
  \E i \in 1..Len(s) :
    /\ BoundaryBefore(s, i)
    /\ At(s, i, "on")
    /\ \E j \in (i + 2)..Len(s) :
         /\ \A k \in (i + 2)..j : IsLetter(Chr(s, k))
         /\ \E e \in (j + 1)..Len(s) :
              /\ Chr(s, e) = "="
              /\ \A k \in (j + 1)..(e - 1) : IsSpace(Chr(s, k))

DANGEROUS_PATTERNS ==
  << "/javascript:/i", "/\\bon[a-z]+\\s*=/i", "/<script/i", "/<\\/script/i",
     "/eval\\s*\\(/i", "/Function\\s*\\(/i", "/setTimeout\\s*\\(/i",
     "/setInterval\\s*\\(/i", "/\\bdocument\\./i", "/\\bwindow\\./i",
     "/innerHTML/i", "/outerHTML/i", "/\\.prototype\\b/i", "/__proto__/i",
     "/constructor\\s*\\[/i" >>

\* pattern p against an already lower-cased string
TestLowered(p, s) ==
  CASE p = 1 -> Contains(s, "javascript:")
    [] p = 2 -> ContainsHandlerAttribute(s)
    [] p = 3 -> Contains(s, "<script")
    [] p = 4 -> Contains(s, "</script")
    [] p = 5 -> ContainsThenChar(s, "eval", "(")
    [] p = 6 -> ContainsThenChar(s, "function", "(")
    [] p = 7 -> ContainsThenChar(s, "settimeout", "(")
    [] p = 8 -> ContainsThenChar(s, "setinterval", "(")
    [] p = 9 -> ContainsAtWordStart(s, "document.")
    [] p = 10 -> ContainsAtWordStart(s, "window.")
    [] p = 11 -> Contains(s, "innerhtml")
    [] p = 12 -> Contains(s, "outerhtml")
    [] p = 13 -> ContainsAtWordEnd(s, ".prototype")
    [] p = 14 -> Contains(s, "__proto__")
    [] p = 15 -> ContainsThenChar(s, "constructor", "[")

\* DANGEROUS_PATTERNS[p].test(str)
PatternTest(p, str) == TestLowered(p, ToLower(str))

\* for (const pattern of DANGEROUS_PATTERNS), from pattern p on: the index of
\* the first pattern that matches, 0 when none does
RECURSIVE FirstFrom(_, _)
FirstFrom(p, s) ==
  IF p > Len(DANGEROUS_PATTERNS) THEN 0
  ELSE IF TestLowered(p, s) THEN p
  ELSE FirstFrom(p + 1, s)

FirstPattern(str) == FirstFrom(1, ToLower(str))

checkForDangerousContent(x) ==
  IF Tag(x) # "string" THEN [safe |-> TRUE, reason |-> ""]
  ELSE LET p == FirstPattern(Val(x))
       IN IF p = 0 THEN [safe |-> TRUE, reason |-> ""]
          ELSE [safe |-> FALSE, reason |-> DANGEROUS_PATTERNS[p]]

NoError == [code |-> "", details |-> <<>>]
Safe == [safe |-> TRUE, error |-> NoError]

RECURSIVE checkObjectForDangerousContent(_, _)
RECURSIVE CheckElements(_, _, _)
RECURSIVE CheckMembers(_, _, _)
\* a scan that does not descend into arrays
checkObjectForDangerousContent_SkipArrays(obj, path) ==
  CASE Tag(obj) = "string" ->
         LET check == checkForDangerousContent(obj)
         IN IF check.safe THEN Safe
            ELSE [safe |-> FALSE,
                  error |-> [code |-> "SECURITY_VIOLATION",
                             details |-> [content |-> Substring0(Val(obj), 100),
                                          reason |-> check.reason,
                                          path |-> path]]]
    [] Tag(obj) = "object" -> CheckMembers(Val(obj), 1, path)
    [] OTHER -> Safe

checkObjectForDangerousContent(obj, path) ==
  CASE Tag(obj) = "string" ->
         LET check == checkForDangerousContent(obj)
         IN IF check.safe THEN Safe
            ELSE [safe |-> FALSE,
                  error |-> [code |-> "SECURITY_VIOLATION",
                             details |-> [content |-> Substring0(Val(obj), 100),
                                          reason |-> check.reason,
                                          path |-> path]]]
    [] Tag(obj) = "array" -> CheckElements(Val(obj), 1, path)
    [] Tag(obj) = "object" -> CheckMembers(Val(obj), 1, path)
    [] OTHER -> Safe

\* for (let i = 0; i < obj.length; i++)
CheckElements(elems, i, path) ==
  IF i > Len(elems) THEN Safe
  ELSE LET result == checkObjectForDangerousContent(
                       elems[i], path \o "[" \o IndexKey(i - 1) \o "]")
       IN IF ~result.safe THEN result ELSE CheckElements(elems, i + 1, path)

\* for (const key of Object.keys(obj))
CheckMembers(ms, i, path) ==
  IF i > Len(ms) THEN Safe
  ELSE LET result == checkObjectForDangerousContent(
                       ms[i][2], IF path # "" THEN path \o "." \o ms[i][1] ELSE ms[i][1])
       IN IF ~result.safe THEN result ELSE CheckMembers(ms, i + 1, path)

(***************************************************************************)
(* The schema (whitelist, component type, structure checks).               *)
(***************************************************************************)
COMPONENT_WHITELIST ==
  <<"TextInput", "Select", "Checkbox", "Text", "Alert", "Table", "Button">>

\* a whitelist test that accepts every kind
isWhitelisted_AnyKind(type) == Tag(type) = "string"

isWhitelisted(type) ==
  Tag(type) = "string" /\ \E i \in 1..Len(COMPONENT_WHITELIST) : COMPONENT_WHITELIST[i] = Val(type)

\* the single key of a component object, or null
getComponentType(component) ==
  IF ~Truthy(component) \/ ~TypeofObject(component) THEN Null
  ELSE LET keys == ObjectKeys(component)
       IN IF Len(keys) # 1 THEN Null ELSE Str(keys[1])

Valid == [valid |-> TRUE, error |-> NoError]
Invalid(code, details) == [valid |-> FALSE, error |-> [code |-> code, details |-> details]]

validateSurfaceUpdateStructure(data) ==
  IF ~Truthy(data) \/ ~TypeofObject(data)
  THEN Invalid("SCHEMA_INVALID", [message |-> "Data must be an object"])
  ELSE IF ~Truthy(GetProp(data, "surfaceUpdate"))
  THEN Invalid("SCHEMA_INVALID", [field |-> "surfaceUpdate", path |-> "root"])
  ELSE LET surfaceUpdate == GetProp(data, "surfaceUpdate")
       IN IF ~TypeofObject(surfaceUpdate)
          THEN Invalid("SCHEMA_INVALID", [field |-> "surfaceUpdate", path |-> ""])
          ELSE IF Tag(GetProp(surfaceUpdate, "surfaceId")) # "string"
          THEN Invalid("SCHEMA_INVALID", [field |-> "surfaceId", path |-> "surfaceUpdate"])
          ELSE IF Tag(GetProp(surfaceUpdate, "components")) # "array"
          THEN Invalid("SCHEMA_INVALID", [field |-> "components", path |-> "surfaceUpdate"])
          ELSE Valid

\* index is the 0-based position of the entry in the components array
validateComponentEntry(entry, index) ==
  IF ~Truthy(entry) \/ ~TypeofObject(entry)
  THEN Invalid("SCHEMA_INVALID", [index |-> index, field |-> "entry"])
  ELSE IF \/ Tag(GetProp(entry, "id")) # "string"
          \/ TrimIsEmpty(Val(GetProp(entry, "id")))
  THEN Invalid("SCHEMA_INVALID", [index |-> index, field |-> "id"])
  ELSE IF \/ ~Truthy(GetProp(entry, "component"))
          \/ ~TypeofObject(GetProp(entry, "component"))
  THEN Invalid("SCHEMA_INVALID", [index |-> index, field |-> "component"])
  ELSE IF ~Truthy(getComponentType(GetProp(entry, "component")))
  THEN Invalid("SCHEMA_INVALID", [index |-> index, field |-> "component structure"])
  ELSE Valid

(***************************************************************************)
(* The parser.                                                             *)
(***************************************************************************)
validateComponentType(component, componentId) ==
  LET type == getComponentType(component)
  IN IF ~Truthy(type)
     THEN Invalid("SCHEMA_INVALID", [componentId |-> componentId])
     ELSE IF ~isWhitelisted(type)
     THEN Invalid("UNKNOWN_COMPONENT", [type |-> type, allowed |-> COMPONENT_WHITELIST])
     ELSE Valid

\* componentIds.has(x): the set holds strings only
SetHas(componentIds, x) == Tag(x) = "string" /\ Val(x) \in componentIds

\* The outcome of resolveReferences: valid, invalid with an error, or a
\* TypeError thrown by a property read on null.
RefsValid == [outcome |-> "valid", error |-> NoError]
RefsInvalid(entry, target) ==
  [outcome |-> "invalid",
   error |-> [code |-> "INVALID_REFERENCE",
              details |-> [componentId |-> GetProp(entry, "id"), referencedId |-> target]]]
RefsThrows(entry) ==
  [outcome |-> "throws",
   error |-> [code |-> "TypeError", details |-> [componentId |-> GetProp(entry, "id")]]]

\* for (const entry of components), from the i-th entry on
RECURSIVE ResolveFrom(_, _, _)
ResolveFrom(components, i, componentIds) ==
  IF i > Len(components) THEN RefsValid
  ELSE LET entry == components[i]
           type == getComponentType(GetProp(entry, "component"))
           props == GetProp(GetProp(entry, "component"), Val(type))
       IN IF ReadThrows(props) THEN RefsThrows(entry)
          ELSE IF /\ type = Str("Button")
                  /\ Truthy(GetProp(props, "child"))
                  /\ ~SetHas(componentIds, GetProp(props, "child"))
          THEN RefsInvalid(entry, GetProp(props, "child"))
          ELSE IF /\ Truthy(GetProp(props, "ref"))
                  /\ Tag(GetProp(props, "ref")) = "string"
                  /\ ~SetHas(componentIds, GetProp(props, "ref"))
          THEN RefsInvalid(entry, GetProp(props, "ref"))
          ELSE ResolveFrom(components, i + 1, componentIds)

\* reference resolution folded into the first pass: a target must precede
RECURSIVE ResolveSeen(_, _, _)
ResolveSeen(components, i, seen) ==
  IF i > Len(components) THEN RefsValid
  ELSE LET entry == components[i]
           props == GetProp(GetProp(entry, "component"),
                            Val(getComponentType(GetProp(entry, "component"))))
           ids == seen \cup {Val(GetProp(entry, "id"))}
       IN IF ReadThrows(props) THEN RefsThrows(entry)
          ELSE IF /\ getComponentType(GetProp(entry, "component")) = Str("Button")
                  /\ Truthy(GetProp(props, "child"))
                  /\ ~SetHas(ids, GetProp(props, "child"))
          THEN RefsInvalid(entry, GetProp(props, "child"))
          ELSE IF /\ Truthy(GetProp(props, "ref"))
                  /\ Tag(GetProp(props, "ref")) = "string"
                  /\ ~SetHas(ids, GetProp(props, "ref"))
          THEN RefsInvalid(entry, GetProp(props, "ref"))
          ELSE ResolveSeen(components, i + 1, ids)

resolveReferences_EarlierOnly(data, componentIds) ==
  ResolveSeen(Val(GetProp(GetProp(data, "surfaceUpdate"), "components")), 1, {})

resolveReferences(data, componentIds) ==
  ResolveFrom(Val(GetProp(GetProp(data, "surfaceUpdate"), "components")), 1, componentIds)

\* a first pass without the duplicate-id check
RECURSIVE ValidateFrom_NoDuplicateCheck(_, _, _)
ValidateFrom_NoDuplicateCheck(components, i, componentIds) ==
  IF i > Len(components) THEN [valid |-> TRUE, error |-> NoError, ids |-> componentIds]
  ELSE LET entry == components[i]
           entryValidation == validateComponentEntry(entry, i - 1)
       IN IF ~entryValidation.valid
          THEN [valid |-> FALSE, error |-> entryValidation.error, ids |-> componentIds]
          ELSE LET typeValidation ==
                     validateComponentType(GetProp(entry, "component"), GetProp(entry, "id"))
               IN IF ~typeValidation.valid
                  THEN [valid |-> FALSE, error |-> typeValidation.error, ids |-> componentIds]
                  ELSE ValidateFrom_NoDuplicateCheck(components, i + 1,
                                    componentIds \cup {Val(GetProp(entry, "id"))})

\* Step 4 of parse: for (let i = 0; i < components.length; i++), from the
\* i-th entry on, with the ids collected so far
RECURSIVE ValidateFrom(_, _, _)
ValidateFrom(components, i, componentIds) ==
  IF i > Len(components) THEN [valid |-> TRUE, error |-> NoError, ids |-> componentIds]
  ELSE LET entry == components[i]
           entryValidation == validateComponentEntry(entry, i - 1)
       IN IF ~entryValidation.valid
          THEN [valid |-> FALSE, error |-> entryValidation.error, ids |-> componentIds]
          ELSE IF Val(GetProp(entry, "id")) \in componentIds
          THEN [valid |-> FALSE,
                error |-> [code |-> "SCHEMA_INVALID",
                           details |-> [id |-> GetProp(entry, "id"), index |-> i - 1]],
                ids |-> componentIds]
          ELSE LET typeValidation ==
                     validateComponentType(GetProp(entry, "component"), GetProp(entry, "id"))
               IN IF ~typeValidation.valid
                  THEN [valid |-> FALSE, error |-> typeValidation.error, ids |-> componentIds]
                  ELSE ValidateFrom(components, i + 1,
                                    componentIds \cup {Val(GetProp(entry, "id"))})

Success(data) == [kind |-> "success", data |-> data, error |-> NoError]
Failure(error) == [kind |-> "failure", data |-> Undefined, error |-> error]
Throws(error) == [kind |-> "throws", data |-> Undefined, error |-> error]

parse(jsonString) ==
  IF Tag(jsonString) = "garbage"
  THEN Failure([code |-> "JSON_SYNTAX", details |-> [position |-> Val(jsonString)]])
  ELSE
    LET data == JSONparse(Val(jsonString))
        structureValidation == validateSurfaceUpdateStructure(data)
    IN IF ~structureValidation.valid THEN Failure(structureValidation.error)
       ELSE
         LET securityCheck == checkObjectForDangerousContent(data, "")
         IN IF ~securityCheck.safe THEN Failure(securityCheck.error)
            ELSE
              LET components == Val(GetProp(GetProp(data, "surfaceUpdate"), "components"))
                  step4 == ValidateFrom(components, 1, {})
              IN IF ~step4.valid THEN Failure(step4.error)
                 ELSE
                   LET referenceValidation == resolveReferences(data, step4.ids)
                   IN CASE referenceValidation.outcome = "throws" ->
                             Throws(referenceValidation.error)
                        [] referenceValidation.outcome = "invalid" ->
                             Failure(referenceValidation.error)
                        [] OTHER -> Success(data)

(***************************************************************************)
(* The serializer.                                                         *)
(***************************************************************************)
\* keys.sort(): insertion of k into an already sorted sequence
RECURSIVE InsertSorted(_, _)
InsertSorted(sorted, k) ==
  IF Len(sorted) = 0 THEN <<k>>
  ELSE IF StrLess(k, Head(sorted)) THEN <<k>> \o sorted
  ELSE <<Head(sorted)>> \o InsertSorted(Tail(sorted), k)

RECURSIVE SortKeys(_)
SortKeys(keys) ==
  IF Len(keys) = 0 THEN <<>> ELSE InsertSorted(SortKeys(Tail(keys)), Head(keys))

\* keys.forEach(key => { sortedProps[key] = props[key] })
RECURSIVE AssignAll(_, _, _)
AssignAll(sortedProps, keys, props) ==
  IF Len(keys) = 0 THEN sortedProps
  ELSE AssignAll(SetMember(sortedProps, Head(keys), GetProp(props, Head(keys))),
                 Tail(keys), props)

\* normalizeComponent reads Object.keys(props): a TypeError on null
NormalizeThrows(component) ==
  /\ Truthy(getComponentType(component))
  /\ ReadThrows(GetProp(component, Val(getComponentType(component))))

\* a print that leaves the property keys as they are
normalizeComponent_AsIs(component) == component

normalizeComponent(component) ==
  LET type == getComponentType(component)
  IN IF ~Truthy(type) THEN component
     ELSE LET props == GetProp(component, Val(type))
          IN Obj(<< <<Val(type), Obj(AssignAll(<<>>, SortKeys(ObjectKeys(props)), props))>> >>)

\* print(structure), for a structure with surfaceUpdate.components an array of
\* objects; <<"throws", 0>> when normalizeComponent throws
print(structure) ==
  LET surfaceUpdate == GetProp(structure, "surfaceUpdate")
      components == Val(GetProp(surfaceUpdate, "components"))
  IN IF \E i \in 1..Len(components) : NormalizeThrows(GetProp(components[i], "component"))
     THEN <<"throws", 0>>
     ELSE JSONstringify(
            Obj(<< <<"surfaceUpdate",
                     Obj(<< <<"surfaceId", GetProp(surfaceUpdate, "surfaceId")>>,
                            <<"components",
                              Arr([i \in 1..Len(components) |->
                                     Obj(<< <<"id", GetProp(components[i], "id")>>,
                                            <<"component",
                                              normalizeComponent(
                                                GetProp(components[i], "component"))>> >>)])>>
                         >>)>> >>))

(***************************************************************************)
(* The candidate documents: what a language model may hand to parse.       *)
(***************************************************************************)
Entry(id, kind, props) ==
  Obj(<< <<"id", id>>, <<"component", Obj(<< <<kind, props>> >>)>> >>)

GoAction == Obj(<< <<"name", Str("go")>> >>)

EntryPool ==
  << Entry(Str("a"), "Text", Obj(<< <<"text", Str("hi")>> >>)),
     Entry(Str("b"), "Text",
           Obj(<< <<"usageHint", Str("h1")>>, <<"text", Str("script writing tips")>> >>)),
     Entry(Str("a"), "Text", Obj(<< <<"text", Str("<script>")>> >>)),
     Entry(Str("b"), "Text", Null),
     Entry(Str("b"), "Alert", Str("ok")),
     Entry(Str("a"), "Text", Obj(<< <<"text", Str("hi")>>, <<"ref", Str("zz")>> >>)),
     Entry(Str("a"), "Select",
           Obj(<< <<"options",
                    Arr(<< Obj(<< <<"value", Str("v")>>,
                                  <<"label", Str("JavaScript:void 0")>> >>) >>)>> >>)),
     Entry(Str("b"), "Button",
           Obj(<< <<"variant", Str("primary")>>, <<"child", Str("a")>>,
                  <<"action", GoAction>> >>)),
     Entry(Str("a"), "Button", Obj(<< <<"child", Str("b")>>, <<"action", GoAction>> >>)),
     Entry(Str("a"), "Button", Obj(<< <<"child", Str("zz")>>, <<"action", GoAction>> >>)),
     Entry(Str("b"), "Button", Obj(<< <<"child", Str("")>>, <<"action", GoAction>> >>)),
     Entry(Str("b"), "Button", Obj(<< <<"child", Num(5)>>, <<"action", GoAction>> >>)),
     Entry(Str("b"), "Button",
           Obj(<< <<"action", GoAction>>, <<"10", Num(1)>>, <<"9", Num(2)>> >>)),
     Entry(Str("b"), "Bogus", Obj(<<>>)),
     Null,
     Entry(Str(" "), "Text", Obj(<< <<"text", Str("hi")>> >>)),
     Entry(Num(7), "Text", Obj(<< <<"text", Str("hi")>> >>)),
     Entry(Str("onload=x"), "Text", Obj(<< <<"text", Str("hi")>> >>)),
     Obj(<< <<"id", Str("a")>>,
            <<"component", Obj(<< <<"Text", Obj(<<>>)>>, <<"Button", Obj(<<>>)>> >>)>> >>),
     Obj(<< <<"id", Str("b")>>,
            <<"component", Obj(<< <<"Text", Obj(<< <<"text", Str("old")>> >>)>>,
                                  <<"Text", Obj(<< <<"text", Str("new")>> >>)>> >>)>> >>),
     Obj(<< <<"weight", Num(1)>>, <<"id", Str("a")>>,
            <<"component", Obj(<< <<"Text", Obj(<< <<"text", Str("hi")>> >>)>> >>)>> >>) >>

SurfaceIds == <<"s1", "window.top">>

Surface(surfaceId, components) ==
  JsonText(Obj(<< <<"surfaceUpdate",
                    Obj(<< <<"surfaceId", Str(surfaceId)>>,
                           <<"components", Arr(components)>> >>)>> >>))

\* documents that are no surface at all
OddTexts ==
  << Garbage(0),
     JsonText(Null),
     JsonText(Str("hi")),
     JsonText(Arr(<<>>)),
     JsonText(Obj(<<>>)),
     JsonText(Obj(<< <<"surfaceUpdate", Str("x")>> >>)),
     JsonText(Obj(<< <<"surfaceUpdate", Obj(<< <<"components", Arr(<<>>)>> >>)>> >>)),
     JsonText(Obj(<< <<"surfaceUpdate",
                       Obj(<< <<"surfaceId", Num(5)>>, <<"components", Arr(<<>>)>> >>)>> >>)),
     JsonText(Obj(<< <<"surfaceUpdate",
                       Obj(<< <<"surfaceId", Str("s1")>>, <<"components", Obj(<<>>)>> >>)>> >>)),
     JsonText(Obj(<< <<"note", Str("eval (x)")>>,
                     <<"surfaceUpdate",
                       Obj(<< <<"surfaceId", Str("s1")>>, <<"components", Arr(<<>>)>> >>)>> >>)),
     JsonText(Obj(<< <<"surfaceUpdate",
                       Obj(<< <<"surfaceId", Str("eval (x)")>>,
                              <<"components", Num(1)>> >>)>> >>)) >>

(***************************************************************************)
(* The validator and serializer as a state machine: a text is parsed; an   *)
(* accepted structure is printed, the print is parsed and printed again.   *)
(***************************************************************************)
VARIABLES text, pc, result, printed, reparsed, reprinted

\* the agent: its fields, the call in progress and that call's locals
VARIABLES maxRetries, state, call, apc, context, currentContext, retryCount,
          toolResult, observation, decision, request, candidate, parseResult,
          outcome, log, reasoning, errorArg

\* the objects the contexts are: the cells of the store, and which cell is the
\* caller's context, the call's currentContext and the context returned
VARIABLES heap, callerRef, currentRef, returnedRef

parserVars == <<text, pc, result, printed, reparsed, reprinted>>
storeVars == <<heap, callerRef, currentRef, returnedRef>>
agentVars == <<maxRetries, state, call, apc, context, currentContext, retryCount,
               toolResult, observation, decision, request, candidate, parseResult,
               outcome, log, reasoning, errorArg, storeVars>>

\* the action router: the call in progress and what it has done
VARIABLES rActionId, rFormData, rpc, rCoerced, rInvoked, rResult

routerVars == <<rActionId, rFormData, rpc, rCoerced, rInvoked, rResult>>

\* the agent endpoint: the request body, the call made and the response
VARIABLES eBody, epc, eCalled, eFailure, eResponse

endpointVars == <<eBody, epc, eCalled, eFailure, eResponse>>

\* the data binding: the binding to resolve, the data model and the value found
VARIABLES bBinding, bDataModel, bpc, bResult

bindingVars == <<bBinding, bDataModel, bpc, bResult>>

\* the renderer: the validated structure it is given and what it renders
VARIABLES vStructure, vpc, vRendered

rendererVars == <<vStructure, vpc, vRendered>>

\* the LLM client: its retry limit, the chat call in progress, the requests sent,
\* the provider's answers and how the call ended
VARIABLES cMaxRetries, cFormat, cpc, cAttempt, cLastError, cLog, cOutcome

chatVars == <<cMaxRetries, cFormat, cpc, cAttempt, cLastError, cLog, cOutcome>>

NoChatOutcome == [kind |-> "none", value |-> Undefined, code |-> ""]

ChatAtRest ==
  /\ cMaxRetries = Undefined
  /\ cFormat = ""
  /\ cpc = "off"
  /\ cAttempt = 0
  /\ cLastError = ""
  /\ cLog = <<>>
  /\ cOutcome = NoChatOutcome

\* the page: the query typed, the agent context it keeps, the store (currentUI,
\* formValues, isLoading, history), the requests in flight, the bodies sent so far
\* and the context the endpoint returned last
VARIABLES pQuery, pContext, pUI, pFormValues, pLoading, pHistory, pInFlight, pSent,
          pLastReturned

pageVars == <<pQuery, pContext, pUI, pFormValues, pLoading, pHistory, pInFlight, pSent,
              pLastReturned>>

PageAtRest ==
  /\ pQuery = ""
  /\ pContext = Undefined
  /\ pUI = Undefined
  /\ pFormValues = Undefined
  /\ pLoading = FALSE
  /\ pHistory = <<>>
  /\ pInFlight = <<>>
  /\ pSent = <<>>
  /\ pLastReturned = Undefined

\* the variables of the components other than the validator and the agent
extVars == <<routerVars, endpointVars, bindingVars, rendererVars, chatVars, pageVars>>
vars == <<parserVars, agentVars, extVars>>

RouterAtRest ==
  /\ rActionId = Undefined
  /\ rFormData = Undefined
  /\ rpc = "off"
  /\ rCoerced = Undefined
  /\ rInvoked = <<>>
  /\ rResult = Undefined

NoResponse == [status |-> 0, code |-> ""]

EndpointAtRest ==
  /\ eBody = Undefined
  /\ epc = "off"
  /\ eCalled = "none"
  /\ eFailure = "none"
  /\ eResponse = NoResponse

BindingAtRest ==
  /\ bBinding = Undefined
  /\ bDataModel = Undefined
  /\ bpc = "off"
  /\ bResult = Undefined

NotRendered == [kind |-> "none", top |-> <<>>]

RendererAtRest ==
  /\ vStructure = Undefined
  /\ vpc = "off"
  /\ vRendered = NotRendered

ExtAtRest ==
  /\ RouterAtRest
  /\ EndpointAtRest
  /\ BindingAtRest
  /\ RendererAtRest
  /\ ChatAtRest
  /\ PageAtRest

NoResult == [kind |-> "none", data |-> Undefined, error |-> NoError]
NoText == <<"none", 0>>

(***************************************************************************)
(* The ReAct agent (src/unnamed/part_014).  Its collaborators are the LLM  *)
(* client, asked with responseFormat 'json' and answering with a JSON      *)
(* object or failing with an LLMError, and the action router, answering    *)
(* with a tool result.                                                     *)
(***************************************************************************)
AgentState ==
  [IDLE |-> "idle", REASONING |-> "reasoning", ACTING |-> "acting",
   OBSERVING |-> "observing", DECIDING |-> "deciding"]

DecisionType ==
  [COMPLETE |-> "complete", CONTINUE |-> "continue", RETRY |-> "retry", ERROR |-> "error"]

NON_RETRYABLE_CODES == <<Str("UNAUTHORIZED"), Str("FORBIDDEN"), Str("NOT_FOUND")>>

DefaultMaxRetries == 3

\* array.includes(x)
Includes(array, x) ==
  \E i \in 1..Len(array) : Tag(array[i]) = Tag(x) /\ Val(array[i]) = Val(x)

\* { ...target, ...source }
RECURSIVE AssignMembers(_, _)
AssignMembers(members, source) ==
  IF Len(source) = 0 THEN members
  ELSE AssignMembers(SetMember(members, Head(source)[1], Head(source)[2]), Tail(source))

Spread(target, source) ==
  Obj(AssignMembers(IF Tag(target) = "object" THEN Val(target) ELSE <<>>,
                    IF Tag(source) = "object" THEN Val(source) ELSE <<>>))

\* this.maxRetries = config.maxRetries || 3
constructor(config) ==
  [maxRetries |-> IF Truthy(GetProp(config, "maxRetries"))
                  THEN GetProp(config, "maxRetries")
                  ELSE Num(DefaultMaxRetries),
   state |-> AgentState.IDLE]

\* while (retryCount < this.maxRetries)
LoopContinues_Inclusive(count, limit) == count <= Val(limit)

LoopContinues(count, limit) == count < Val(limit)

observe(toolResultArg, contextArg) ==
  LET success == GetProp(toolResultArg, "success")
      message == GetProp(GetProp(toolResultArg, "error"), "message")
  IN Obj(<< <<"success", success>>,
            <<"data", GetProp(toolResultArg, "data")>>,
            <<"error", GetProp(toolResultArg, "error")>>,
            <<"reason", IF Truthy(success) THEN Null
                        ELSE IF Truthy(message) THEN message
                        ELSE Str("Tool execution failed")>> >>)

isRetryable_Always(observationArg) == TRUE

isRetryable(observationArg) ==
  ~(/\ Truthy(GetProp(observationArg, "error"))
    /\ Includes(NON_RETRYABLE_CODES, GetProp(GetProp(observationArg, "error"), "code")))

\* decide awaits inferAdjustments exactly on a failed, retryable observation
ConsultsModel(observationArg) ==
  ~Truthy(GetProp(observationArg, "success")) /\ isRetryable(observationArg)

\* response.adjustments || {}
inferAdjustments(response) ==
  IF Truthy(GetProp(response, "adjustments"))
  THEN GetProp(response, "adjustments")
  ELSE Obj(<<>>)

\* the variant that asks for a next step after a success
decide_Continuing(observationArg, adjustments) ==
  IF Truthy(GetProp(observationArg, "success"))
  THEN [type |-> DecisionType.CONTINUE, adjustments |-> Null, error |-> Undefined]
  ELSE IF isRetryable(observationArg)
  THEN [type |-> DecisionType.RETRY, adjustments |-> adjustments, error |-> Undefined]
  ELSE [type |-> DecisionType.ERROR, adjustments |-> Undefined,
        error |-> GetProp(observationArg, "error")]

\* the decision, given what inferAdjustments answered where it was asked
decide(observationArg, adjustments) ==
  IF Truthy(GetProp(observationArg, "success"))
  THEN [type |-> DecisionType.COMPLETE, adjustments |-> Null, error |-> Undefined]
  ELSE IF isRetryable(observationArg)
  THEN [type |-> DecisionType.RETRY, adjustments |-> adjustments, error |-> Undefined]
  ELSE [type |-> DecisionType.ERROR, adjustments |-> Undefined,
        error |-> IF Truthy(GetProp(observationArg, "error"))
                  THEN GetProp(observationArg, "error")
                  ELSE Obj(<< <<"code", Str("UNKNOWN")>>,
                              <<"message", GetProp(observationArg, "reason")>> >>)]

\* Date.now(): the reading of the clock
Now == Num(0)

updateContext(contextArg, updates) ==
  LET history == GetProp(contextArg, "conversationHistory")
  IN Spread(contextArg,
            Obj(<< <<"conversationHistory",
                     Arr(Append(IF Truthy(history) THEN Val(history) ELSE <<>>,
                                Spread(Obj(<< <<"timestamp", Now>> >>), updates)))>> >>))

\* the variant that also records each failed attempt in the history
updateContextForRetry_Recording(contextArg, observationArg, adjustments) ==
  LET previous == GetProp(GetProp(contextArg, "retryInfo"), "attemptNumber")
      history == GetProp(contextArg, "conversationHistory")
  IN Spread(contextArg,
            Obj(<< <<"retryInfo",
                     Obj(<< <<"previousObservation", observationArg>>,
                            <<"adjustments", adjustments>>,
                            <<"attemptNumber",
                              Num((IF Truthy(previous) THEN Val(previous) ELSE 0) + 1)>>
                         >>)>>,
                   <<"conversationHistory",
                     Arr(Append(IF Truthy(history) THEN Val(history) ELSE <<>>,
                                Obj(<< <<"timestamp", Now>>,
                                       <<"observation", observationArg>> >>)))>> >>))

updateContextForRetry(contextArg, observationArg, adjustments) ==
  LET previous == GetProp(GetProp(contextArg, "retryInfo"), "attemptNumber")
  IN Spread(contextArg,
            Obj(<< <<"retryInfo",
                     Obj(<< <<"previousObservation", observationArg>>,
                            <<"adjustments", adjustments>>,
                            <<"attemptNumber",
                              Num((IF Truthy(previous) THEN Val(previous) ELSE 0) + 1)>>
                         >>)>> >>))

(***************************************************************************)
(* The same updates on the store, where an object is a cell and a member   *)
(* that is an object holds a reference to its cell: a spread copies the    *)
(* references, not the cells.                                              *)
(***************************************************************************)
Ref(address) == <<"ref", address>>

\* the members of a context that are objects of their own
OwnCellKeys == {"conversationHistory", "retryInfo"}

HasOwnCell(member) ==
  member[1] \in OwnCellKeys /\ Tag(member[2]) \in {"object", "array"}

\* the cells of a context the caller built: the context in cell 1, then its
\* conversationHistory and its retryInfo
Stored(contextArg) ==
  LET ms == Val(contextArg)
      before(i) == Cardinality({k \in 1..i : HasOwnCell(ms[k])})
      own == SelectSeq(ms, HasOwnCell)
  IN << Obj([i \in 1..Len(ms) |->
               IF HasOwnCell(ms[i]) THEN <<ms[i][1], Ref(1 + before(i))>> ELSE ms[i]]) >>
     \o [j \in 1..Len(own) |-> own[j][2]]

\* the value a cell holds, its references followed once
Deref(h, address) ==
  LET ms == Val(h[address])
  IN Obj([i \in 1..Len(ms) |->
            IF Tag(ms[i][2]) = "ref" THEN <<ms[i][1], h[Val(ms[i][2])]>> ELSE ms[i]])

\* member k of the object in a cell, a reference followed
Member(h, address, k) ==
  LET v == GetProp(h[address], k)
  IN IF Tag(v) = "ref" THEN h[Val(v)] ELSE v

Allocated(h, cell) == [heap |-> Append(h, cell), ref |-> Len(h) + 1]

\* { ...context, formData }: a new object
spreadIn(h, address, members) ==
  Allocated(h, Obj(AssignMembers(Val(h[address]), members)))

\* the variant that appends to the history list the context already has
updateContextIn_Push(h, address, updates) ==
  LET history == GetProp(h[address], "conversationHistory")
      entry == Spread(Obj(<< <<"timestamp", Now>> >>), updates)
  IN IF Tag(history) = "ref"
     THEN Allocated([h EXCEPT ![Val(history)] = Arr(Append(Val(h[Val(history)]), entry))],
                    h[address])
     ELSE LET list == Allocated(h, Arr(<<entry>>))
          IN Allocated(list.heap,
                       Obj(SetMember(Val(h[address]), "conversationHistory", Ref(list.ref))))

\* updateContext: a new list (the old entries and the new one) in a new object
updateContextIn(h, address, updates) ==
  LET history == Member(h, address, "conversationHistory")
      entry == Spread(Obj(<< <<"timestamp", Now>> >>), updates)
      list == Allocated(h, Arr(Append(IF Truthy(history) THEN Val(history) ELSE <<>>,
                                      entry)))
  IN Allocated(list.heap,
               Obj(SetMember(Val(h[address]), "conversationHistory", Ref(list.ref))))

\* updateContextForRetry: a new retryInfo in a new object
updateContextForRetryIn(h, address, observationArg, adjustments) ==
  LET previous == GetProp(Member(h, address, "retryInfo"), "attemptNumber")
      info == Allocated(h,
                Obj(<< <<"previousObservation", observationArg>>,
                       <<"adjustments", adjustments>>,
                       <<"attemptNumber",
                         Num((IF Truthy(previous) THEN Val(previous) ELSE 0) + 1)>> >>))
  IN Allocated(info.heap, Obj(SetMember(Val(h[address]), "retryInfo", Ref(info.ref))))

\* no reference yet
NoRef == 0

\* the cells the roots reach: the contexts themselves and the cells their members
\* refer to
Reachable(h, roots) ==
  roots \cup UNION {{Val(Val(h[a])[i][2]) :
                       i \in {k \in 1..Len(Val(h[a])) : Tag(Val(h[a])[k][2]) = "ref"}} :
                    a \in roots}

\* the store without the cells nothing reaches any more (no code can observe them):
\* the cells that stay keep their order, and the references follow them
NewAddress(keep, a) == Cardinality({k \in keep : k <= a})
OldAddress(keep, n) == CHOOSE a \in keep : NewAddress(keep, a) = n

Moved(keep, cell) ==
  IF Tag(cell) # "object" THEN cell
  ELSE Obj([i \in 1..Len(Val(cell)) |->
              IF Tag(Val(cell)[i][2]) = "ref"
              THEN <<Val(cell)[i][1], Ref(NewAddress(keep, Val(Val(cell)[i][2])))>>
              ELSE Val(cell)[i]])

Collect(h, roots) ==
  [n \in 1..Cardinality(Reachable(h, roots)) |->
     Moved(Reachable(h, roots), h[OldAddress(Reachable(h, roots), n)])]

\* the object a phase hands to composeUserPrompt: { ...context, <argument>, phase }
PromptInput(contextArg, key, value, phase) ==
  Spread(contextArg, Obj(<< <<key, value>>, <<"phase", Str(phase)>> >>))

\* typeof response === 'string' ? response : JSON.stringify(response); the
\* client answers a 'json' request with a JSON object, so the text is its
\* serialization
jsonStringOf(response) == JSONstringify(response)

\* if (!parseResult.success) throw ...
Accepted_Always(parsed) == TRUE

Accepted(parsed) == parsed.kind = "success"

MaxRetriesError ==
  Obj(<< <<"code", Str("MAX_RETRIES")>>,
         <<"message", Str("Maximum retry attempts exceeded")>> >>)

\* the type of the response each UI phase returns
ResponseType(phase) ==
  CASE phase = "acting" -> "ui"
    [] phase = "generating_result_ui" -> "result"
    [] phase = "generating_next_step_ui" -> "ui"
    [] phase = "generating_error_ui" -> "error"

\* the history entry each UI phase appends to the returned context
HistoryUpdates(phase, query, reasoned, ui, toolResultArg, error) ==
  CASE phase = "acting" ->
         Obj(<< <<"query", query>>, <<"reasoning", reasoned>>,
                <<"action", Obj(<< <<"ui", ui>> >>)>> >>)
    [] phase = "generating_result_ui" ->
         Obj(<< <<"completed", Bool(TRUE)>>, <<"result", toolResultArg>> >>)
    [] phase = "generating_next_step_ui" ->
         Obj(<< <<"previousResult", toolResultArg>> >>)
    [] phase = "generating_error_ui" ->
         Obj(<< <<"error", error>> >>)

(***************************************************************************)
(* What the agent's surroundings may supply: the configuration it is       *)
(* constructed with, the caller's arguments, the router's tool results,    *)
(* and the LLM client's answers, which are JSON objects (the client asks   *)
(* for response_format json_object) or LLMErrors.                          *)
(***************************************************************************)
MaxConfigured == 3

Configs ==
  <<Obj(<<>>)>> \o [n \in 1..(MaxConfigured + 1) |-> Obj(<< <<"maxRetries", Num(n - 1)>> >>)]

ActionId == Str("list_instances")
FormData == Obj(<< <<"region", Str("eu")>> >>)
Query == Str("show my instances")

CallerContexts ==
  << Obj(<<>>),
     Obj(<< <<"conversationHistory",
              Arr(<< Obj(<< <<"timestamp", Now>>, <<"query", Str("hello")>> >>) >>)>>,
            <<"retryInfo", Obj(<< <<"attemptNumber", Num(2)>> >>)>> >>) >>

ToolFailure(code) ==
  Obj(<< <<"success", Bool(FALSE)>>, <<"data", Null>>,
         <<"error", Obj(<< <<"code", Str(code)>>, <<"message", Str("failed")>> >>)>>,
         <<"metadata", Undefined>> >>)

ToolResults ==
  << Obj(<< <<"success", Bool(TRUE)>>, <<"data", Obj(<< <<"count", Num(2)>> >>)>>,
            <<"error", Undefined>>, <<"metadata", Undefined>> >>),
     ToolFailure("TIMEOUT"),
     ToolFailure("UNAUTHORIZED"),
     ToolFailure("FORBIDDEN"),
     ToolFailure("NOT_FOUND"),
     ToolFailure("TOOL_NOT_FOUND"),
     Obj(<< <<"success", Bool(FALSE)>>, <<"data", Null>>,
            <<"error", Undefined>>, <<"metadata", Undefined>> >>) >>

ReasoningResponses ==
  << Obj(<< <<"intent", Str("list")>>, <<"requiredInfo", Arr(<<>>)>>,
            <<"confidence", Num(1)>> >>),
     Obj(<<>>) >>

AdjustmentResponses ==
  << Obj(<< <<"adjustments", Obj(<< <<"region", Str("us")>> >>)>> >>),
     Obj(<<>>) >>

\* candidate surfaces of the model, as the objects the LLM client hands back
Candidates ==
  << JSONparse(Val(Surface("s1", <<EntryPool[1]>>))),
     JSONparse(Val(Surface("s1", <<EntryPool[1], EntryPool[8]>>))),
     Obj(<<>>),
     JSONparse(Val(Surface("s1", <<EntryPool[3]>>))),
     JSONparse(Val(Surface("s1", <<EntryPool[4]>>))),
     JSONparse(Val(Surface("s1", <<EntryPool[10]>>))) >>

\* parse(jsonString) of each candidate, as act and the generate*UI methods call it
ParsedCandidates == [i \in 1..Len(Candidates) |-> parse(jsonStringOf(Candidates[i]))]

LLMErrorCodes == <<"RATE_LIMITED", "LLM_CONNECTION">>

NoDecision == [type |-> "none", adjustments |-> Undefined, error |-> Undefined]
NoOutcome ==
  [kind |-> "none", type |-> "none", ui |-> Undefined, context |-> Undefined,
   error |-> "none"]
Returned(type, ui, contextArg) ==
  [kind |-> "returned", type |-> type, ui |-> ui, context |-> contextArg, error |-> "none"]
Threw(error) ==
  [kind |-> "threw", type |-> "none", ui |-> Undefined, context |-> Undefined,
   error |-> error]

\* no call in progress; the call's locals hold nothing
LocalsEmpty ==
  /\ call = "none"
  /\ apc = "idle"
  /\ currentContext = Undefined
  /\ retryCount = 0
  /\ toolResult = Undefined
  /\ observation = Undefined
  /\ decision = NoDecision
  /\ request = Undefined
  /\ candidate = Undefined
  /\ parseResult = NoResult
  /\ outcome = NoOutcome
  /\ log = <<>>
  /\ heap = Stored(context)
  /\ callerRef = 1
  /\ currentRef = NoRef
  /\ returnedRef = NoRef

AgentAtRest ==
  /\ maxRetries = constructor(Configs[1]).maxRetries
  /\ state = constructor(Configs[1]).state
  /\ context = CallerContexts[1]
  /\ reasoning = Undefined
  /\ errorArg = Undefined
  /\ LocalsEmpty

Init ==
  /\ \/ \E i \in 1..Len(OddTexts) : text = OddTexts[i]
     \/ \E n \in 0..MaxComponents :
          \E pick \in [1..n -> 1..Len(EntryPool)] :
            \E s \in 1..Len(SurfaceIds) :
              text = Surface(SurfaceIds[s], [i \in 1..n |-> EntryPool[pick[i]]])
  /\ pc = "input"
  /\ result = NoResult
  /\ printed = NoText
  /\ reparsed = NoResult
  /\ reprinted = NoText
  /\ AgentAtRest
  /\ ExtAtRest

ParseText ==
  /\ pc = "input"
  /\ result' = parse(text)
  /\ pc' = "parsed"
  /\ UNCHANGED <<text, printed, reparsed, reprinted>>
  /\ UNCHANGED agentVars
  /\ UNCHANGED extVars

PrintStructure ==
  /\ pc = "parsed"
  /\ result.kind = "success"
  /\ printed' = print(result.data)
  /\ pc' = "printed"
  /\ UNCHANGED <<text, result, reparsed, reprinted>>
  /\ UNCHANGED agentVars
  /\ UNCHANGED extVars

ParsePrinted ==
  /\ pc = "printed"
  /\ Tag(printed) # "throws"
  /\ reparsed' = parse(printed)
  /\ pc' = "reparsed"
  /\ UNCHANGED <<text, result, printed, reprinted>>
  /\ UNCHANGED agentVars
  /\ UNCHANGED extVars

PrintReparsed ==
  /\ pc = "reparsed"
  /\ reparsed.kind = "success"
  /\ reprinted' = print(reparsed.data)
  /\ pc' = "reprinted"
  /\ UNCHANGED <<text, result, printed, reparsed>>
  /\ UNCHANGED agentVars
  /\ UNCHANGED extVars

Next == ParseText \/ PrintStructure \/ ParsePrinted \/ PrintReparsed

Spec == Init /\ [][Next]_vars

(***************************************************************************)
(* The agent as a state machine.  A step runs the agent from one await to  *)
(* the next; apc names the await the call in progress is suspended at (the *)
(* phase of an LLM request, "route" for the router), and log lists the     *)
(* requests sent to the collaborators and the tool results received.       *)
(***************************************************************************)
Event(kind, name, code) == <<kind, name, code>>

CodeOf(error) ==
  IF Tag(GetProp(error, "code")) = "string" THEN Val(GetProp(error, "code")) ELSE ""

UIPhases ==
  {"acting", "generating_result_ui", "generating_next_step_ui", "generating_error_ui"}
LLMPhases == UIPhases \cup {"reasoning", "inferring_adjustments"}

ParserAtRest ==
  /\ text = NoText
  /\ pc = "off"
  /\ result = NoResult
  /\ printed = NoText
  /\ reparsed = NoResult
  /\ reprinted = NoText

AgentInit ==
  /\ ParserAtRest
  /\ ExtAtRest
  /\ \E i \in 1..Len(Configs) :
       /\ maxRetries = constructor(Configs[i]).maxRetries
       /\ state = constructor(Configs[i]).state
  /\ \E c \in 1..Len(CallerContexts) : context = CallerContexts[c]
  /\ reasoning = Undefined
  /\ errorArg = Undefined
  /\ LocalsEmpty

\* the variant that applies the adjustments of the last retry to the form data
executeTool_Adjusted(actionIdArg, params, contextArg) ==
  <<actionIdArg, Spread(params, GetProp(GetProp(contextArg, "retryInfo"), "adjustments"))>>

\* executeTool(actionId, formData): the arguments route is called with
executeTool(actionIdArg, params, contextArg) == <<actionIdArg, params>>

\* the head of processAction's loop, and what follows the loop; a route event
\* carries the action id and the form data route is called with
LoopHead(count, contextArg) ==
  IF LoopContinues(count, maxRetries)
  THEN /\ state' = AgentState.ACTING
       /\ log' = Append(log, Event("route",
                                   Val(executeTool(ActionId, FormData, contextArg)[1]),
                                   executeTool(ActionId, FormData, contextArg)[2]))
       /\ apc' = "route"
       /\ UNCHANGED <<request, errorArg>>
  ELSE /\ state' = AgentState.IDLE
       /\ errorArg' = MaxRetriesError
       /\ request' = PromptInput(contextArg, "error", MaxRetriesError, "generating_error_ui")
       /\ log' = Append(log, Event("llm", "generating_error_ui", CodeOf(MaxRetriesError)))
       /\ apc' = "generating_error_ui"

\* process, up to the LLM request of reason
StartProcess ==
  /\ apc = "idle"
  /\ call' = "process"
  /\ state' = AgentState.REASONING
  /\ request' = PromptInput(context, "query", Query, "reasoning")
  /\ log' = Append(log, Event("llm", "reasoning", ""))
  /\ apc' = "reasoning"
  /\ UNCHANGED <<maxRetries, context, currentContext, retryCount, toolResult, observation,
                 decision, candidate, parseResult, outcome, reasoning, errorArg>>
  /\ UNCHANGED storeVars
  /\ UNCHANGED parserVars
  /\ UNCHANGED extVars

\* reason returns; process moves on to the LLM request of act
ReasonReturns ==
  /\ apc = "reasoning"
  /\ \E i \in 1..Len(ReasoningResponses) :
       LET response == ReasoningResponses[i]
           reasoned == Obj(<< <<"intent", GetProp(response, "intent")>>,
                              <<"requiredInfo", GetProp(response, "requiredInfo")>>,
                              <<"confidence", GetProp(response, "confidence")>> >>)
       IN /\ reasoning' = reasoned
          /\ request' = PromptInput(context, "reasoning", reasoned, "acting")
  /\ state' = AgentState.ACTING
  /\ log' = Append(log, Event("llm", "acting", ""))
  /\ apc' = "acting"
  /\ UNCHANGED <<maxRetries, call, context, currentContext, retryCount, toolResult,
                 observation, decision, candidate, parseResult, outcome, errorArg>>
  /\ UNCHANGED storeVars
  /\ UNCHANGED parserVars
  /\ UNCHANGED extVars

\* processAction, up to its first await
StartAction ==
  /\ apc = "idle"
  /\ call' = "processAction"
  /\ retryCount' = 0
  /\ currentContext' = Spread(context, Obj(<< <<"formData", FormData>> >>))
  /\ \E made \in {spreadIn(heap, callerRef, << <<"formData", FormData>> >>)} :
       \E roots \in {{callerRef, made.ref}} :
         /\ heap' = Collect(made.heap, roots)
         /\ currentRef' = NewAddress(Reachable(made.heap, roots), made.ref)
  /\ LoopHead(0, currentContext')
  /\ UNCHANGED <<callerRef, returnedRef>>
  /\ UNCHANGED <<maxRetries, context, toolResult, observation, decision, candidate,
                 parseResult, outcome, reasoning>>
  /\ UNCHANGED parserVars
  /\ UNCHANGED extVars

\* the router answers; the agent observes the tool result
RouteReturns ==
  /\ apc = "route"
  /\ \E i \in 1..Len(ToolResults) :
       /\ toolResult' = ToolResults[i]
       /\ observation' = observe(ToolResults[i], currentContext)
       /\ log' = Append(log, Event("result",
                                   IF Truthy(GetProp(ToolResults[i], "success"))
                                   THEN "success" ELSE "failure",
                                   CodeOf(GetProp(ToolResults[i], "error"))))
  /\ state' = AgentState.OBSERVING
  /\ apc' = "observed"
  /\ UNCHANGED <<maxRetries, call, context, currentContext, retryCount, decision, request,
                 candidate, parseResult, outcome, reasoning, errorArg>>
  /\ UNCHANGED storeVars
  /\ UNCHANGED parserVars
  /\ UNCHANGED extVars

\* decide, up to its return or to the LLM request of inferAdjustments
Decide ==
  /\ apc = "observed"
  /\ state' = AgentState.DECIDING
  /\ IF ConsultsModel(observation)
     THEN /\ request' = Spread(currentContext,
                               Obj(<< <<"observation", observation>>,
                                      <<"phase", Str("inferring_adjustments")>>,
                                      <<"instruction",
                                        Str("Analyze the failure and suggest parameter adjustments for retry")>>
                                   >>))
          /\ log' = Append(log, Event("llm", "inferring_adjustments", ""))
          /\ apc' = "inferring_adjustments"
          /\ UNCHANGED decision
     ELSE /\ decision' = decide(observation, Undefined)
          /\ apc' = "decided"
          /\ UNCHANGED <<request, log>>
  /\ UNCHANGED <<maxRetries, call, context, currentContext, retryCount, toolResult,
                 observation, candidate, parseResult, outcome, reasoning, errorArg>>
  /\ UNCHANGED storeVars
  /\ UNCHANGED parserVars
  /\ UNCHANGED extVars

\* inferAdjustments returns, and decide with it
AdjustReturns ==
  /\ apc = "inferring_adjustments"
  /\ \E i \in 1..Len(AdjustmentResponses) :
       decision' = decide(observation, inferAdjustments(AdjustmentResponses[i]))
  /\ apc' = "decided"
  /\ UNCHANGED <<maxRetries, state, call, context, currentContext, retryCount, toolResult,
                 observation, request, candidate, parseResult, outcome, log, reasoning,
                 errorArg>>
  /\ UNCHANGED storeVars
  /\ UNCHANGED parserVars
  /\ UNCHANGED extVars

\* the switch on the decision, up to the next await
Dispatch ==
  /\ apc = "decided"
  /\ CASE decision.type = DecisionType.COMPLETE ->
            /\ state' = AgentState.IDLE
            /\ request' = PromptInput(currentContext, "result", toolResult,
                                      "generating_result_ui")
            /\ log' = Append(log, Event("llm", "generating_result_ui", ""))
            /\ apc' = "generating_result_ui"
            /\ UNCHANGED <<retryCount, currentContext, errorArg, heap, currentRef>>
       [] decision.type = DecisionType.CONTINUE ->
            /\ state' = AgentState.IDLE
            /\ request' = PromptInput(currentContext, "previousResult", toolResult,
                                      "generating_next_step_ui")
            /\ log' = Append(log, Event("llm", "generating_next_step_ui", ""))
            /\ apc' = "generating_next_step_ui"
            /\ UNCHANGED <<retryCount, currentContext, errorArg, heap, currentRef>>
       [] decision.type = DecisionType.RETRY ->
            /\ retryCount' = retryCount + 1
            /\ currentContext' = updateContextForRetry(currentContext, observation,
                                                       decision.adjustments)
            /\ \E made \in {updateContextForRetryIn(heap, currentRef, observation,
                                                        decision.adjustments)} :
                 \E roots \in {{callerRef, made.ref}} :
                   /\ heap' = Collect(made.heap, roots)
                   /\ currentRef' = NewAddress(Reachable(made.heap, roots), made.ref)
            /\ LoopHead(retryCount', currentContext')
       [] decision.type = DecisionType.ERROR ->
            /\ state' = AgentState.IDLE
            /\ errorArg' = GetProp(observation, "error")
            /\ request' = PromptInput(currentContext, "error", GetProp(observation, "error"),
                                      "generating_error_ui")
            /\ log' = Append(log, Event("llm", "generating_error_ui",
                                        CodeOf(GetProp(observation, "error"))))
            /\ apc' = "generating_error_ui"
            /\ UNCHANGED <<retryCount, currentContext, heap, currentRef>>
  /\ UNCHANGED <<maxRetries, call, context, toolResult, observation, decision, candidate,
                 parseResult, outcome, reasoning>>
  /\ UNCHANGED <<callerRef, returnedRef>>
  /\ UNCHANGED parserVars
  /\ UNCHANGED extVars

\* the LLM answers a UI phase with a candidate surface, which is parsed
UIReturns ==
  /\ apc \in UIPhases
  /\ \E i \in 1..Len(Candidates) :
       LET response == Candidates[i]
           parsed == ParsedCandidates[i]
           base == IF call = "process" THEN context ELSE currentContext
       IN /\ candidate' = response
          /\ parseResult' = parsed
          /\ IF parsed.kind = "throws"
             THEN outcome' = Threw("TypeError") /\ UNCHANGED <<state, heap, returnedRef>>
             ELSE IF ~Accepted(parsed)
             THEN outcome' = Threw("Error") /\ UNCHANGED <<state, heap, returnedRef>>
             ELSE /\ outcome' = Returned(ResponseType(apc), parsed.data,
                                         updateContext(base,
                                           HistoryUpdates(apc, Query, reasoning, parsed.data,
                                                          toolResult, errorArg)))
                  /\ \E made \in {updateContextIn(heap,
                                       IF call = "process" THEN callerRef ELSE currentRef,
                                       HistoryUpdates(apc, Query, reasoning, parsed.data,
                                                      toolResult, errorArg))} :
                       \E roots \in {{callerRef, made.ref}
                                       \cup (IF currentRef = NoRef THEN {}
                                             ELSE {currentRef})} :
                         /\ heap' = Collect(made.heap, roots)
                         /\ returnedRef' = NewAddress(Reachable(made.heap, roots),
                                                      made.ref)
                  /\ state' = IF apc = "acting" THEN AgentState.IDLE ELSE state
  /\ apc' = "done"
  /\ UNCHANGED <<maxRetries, call, context, currentContext, retryCount, toolResult,
                 observation, decision, request, log, reasoning, errorArg>>
  /\ UNCHANGED <<callerRef, currentRef>>
  /\ UNCHANGED parserVars
  /\ UNCHANGED extVars

\* an LLM request fails: chat throws an LLMError, which nothing in the agent catches
LLMThrows ==
  /\ apc \in LLMPhases
  /\ \E i \in 1..Len(LLMErrorCodes) : outcome' = Threw(LLMErrorCodes[i])
  /\ apc' = "done"
  /\ UNCHANGED <<maxRetries, state, call, context, currentContext, retryCount, toolResult,
                 observation, decision, request, candidate, parseResult, log, reasoning,
                 errorArg>>
  /\ UNCHANGED storeVars
  /\ UNCHANGED parserVars
  /\ UNCHANGED extVars

AgentNext ==
  \/ StartProcess
  \/ ReasonReturns
  \/ StartAction
  \/ RouteReturns
  \/ Decide
  \/ AdjustReturns
  \/ Dispatch
  \/ UIReturns
  \/ LLMThrows

AgentSpec == AgentInit /\ [][AgentNext]_vars

\* the steps that wait for no LLM answer: the agent's own code and the router
AgentSteps == StartProcess \/ StartAction \/ RouteReturns \/ Decide \/ Dispatch

\* the agent's code runs on and the router answers (no step that is enabled
\* waits forever), and every LLM request is answered, by a response or by a
\* failure (no call waits in an LLM phase forever)
AgentFairSpec ==
  /\ AgentSpec
  /\ WF_vars(AgentSteps)
  /\ []<>(apc \notin LLMPhases)
(***************************************************************************)
(* Vocabulary of the validator's properties.                               *)
(***************************************************************************)
ComponentsOf(data) == Val(GetProp(GetProp(data, "surfaceUpdate"), "components"))
IdOf(entry) == GetProp(entry, "id")
KindOf(entry) == ObjectKeys(GetProp(entry, "component"))[1]
PropsOf(entry) == GetProp(GetProp(entry, "component"), KindOf(entry))

\* every string value of x with its path, in depth-first order
RECURSIVE Leaves(_, _)
RECURSIVE LeavesOfElements(_, _, _)
RECURSIVE LeavesOfMembers(_, _, _)
Leaves(x, path) ==
  CASE Tag(x) = "string" -> << <<path, Val(x)>> >>
    [] Tag(x) = "array" -> LeavesOfElements(Val(x), 1, path)
    [] Tag(x) = "object" -> LeavesOfMembers(Val(x), 1, path)
    [] OTHER -> <<>>
LeavesOfElements(elems, i, path) ==
  IF i > Len(elems) THEN <<>>
  ELSE Leaves(elems[i], path \o "[" \o IndexKey(i - 1) \o "]")
         \o LeavesOfElements(elems, i + 1, path)
LeavesOfMembers(ms, i, path) ==
  IF i > Len(ms) THEN <<>>
  ELSE Leaves(ms[i][2], IF path = "" THEN ms[i][1] ELSE path \o "." \o ms[i][1])
         \o LeavesOfMembers(ms, i + 1, path)

IsDangerous(str) == \E p \in 1..Len(DANGEROUS_PATTERNS) : PatternTest(p, str)

\* the smallest member of a non-empty set of numbers
Least(S) == CHOOSE n \in S : \A m \in S : n <= m

Parsed == pc # "input"
Decoded == JSONparse(Val(text))
\* the text decodes and has the shape of a surface update
ShapeOk == Tag(text) = "json" /\ validateSurfaceUpdateStructure(Decoded).valid
DangerousLeaves ==
  LET leaves == Leaves(Decoded, "")
  IN {i \in 1..Len(leaves) : IsDangerous(leaves[i][2])}
ScanOk == ShapeOk /\ DangerousLeaves = {}
InputComponents == ComponentsOf(Decoded)
FailsWith(code) == result.kind = "failure" /\ result.error.code = code

ErrorCodes ==
  {"JSON_SYNTAX", "SCHEMA_INVALID", "UNKNOWN_COMPONENT", "INVALID_REFERENCE",
   "SECURITY_VIOLATION"}
SevenKinds == {"TextInput", "Select", "Checkbox", "Text", "Alert", "Table", "Button"}

\* C4: parse never throws: it returns success with data, or failure with an
\* error whose code is one of the five validator codes, for every input text.
C4_ParseNeverThrows ==
  Parsed =>
    /\ result.kind \in {"success", "failure"}
    /\ result.kind = "failure" => result.error.code \in ErrorCodes

\* C5: an accepted surface holds no string value, at any depth, that matches
\* a dangerous pattern; and a text that decodes, has the surface shape and
\* holds such a string fails with SECURITY_VIOLATION for the first matching
\* string in depth-first order.
C5_NoDangerousString ==
  Parsed =>
    /\ result.kind = "success" =>
         LET leaves == Leaves(result.data, "")
         IN \A i \in 1..Len(leaves) : ~IsDangerous(leaves[i][2])
    /\ (ShapeOk /\ DangerousLeaves # {}) =>
         LET first == Leaves(Decoded, "")[Least(DangerousLeaves)]
         IN /\ FailsWith("SECURITY_VIOLATION")
            /\ result.error.details.path = first[1]
            /\ result.error.details.content = Substring0(first[2], 100)

\* a dangerous string nested in an array of the second of two components
C5_Witness ==
  /\ pc = "parsed"
  /\ FailsWith("SECURITY_VIOLATION")
  /\ result.error.details.path
       = "surfaceUpdate.components[1].component.Select.options[0].label"

\* the entries of the input are well formed and their ids pairwise distinct
EntriesOk ==
  /\ \A i \in 1..Len(InputComponents) : validateComponentEntry(InputComponents[i], i - 1).valid
  /\ \A i, j \in 1..Len(InputComponents) :
       i # j => IdOf(InputComponents[i]) # IdOf(InputComponents[j])
UnknownKinds == {i \in 1..Len(InputComponents) : KindOf(InputComponents[i]) \notin SevenKinds}

\* C6: every component of an accepted surface has one of the 7 whitelisted
\* kinds; a component of another kind in an otherwise valid surface is
\* rejected with UNKNOWN_COMPONENT, whose allowed list is exactly the 7 kinds.
C6_Whitelist ==
  Parsed =>
    /\ result.kind = "success" =>
         \A i \in 1..Len(ComponentsOf(result.data)) :
           KindOf(ComponentsOf(result.data)[i]) \in SevenKinds
    /\ (ScanOk /\ EntriesOk /\ UnknownKinds # {}) =>
         /\ FailsWith("UNKNOWN_COMPONENT")
         /\ result.error.details.type = Str(KindOf(InputComponents[Least(UnknownKinds)]))
    /\ FailsWith("UNKNOWN_COMPONENT") =>
         /\ Len(result.error.details.allowed) = 7
         /\ {result.error.details.allowed[i] : i \in 1..7} = SevenKinds

\* a valid component followed by one of kind Bogus
C6_Witness ==
  /\ pc = "parsed"
  /\ ShapeOk
  /\ Len(InputComponents) = 2
  /\ FailsWith("UNKNOWN_COMPONENT")
  /\ result.error.details.type = Str("Bogus")
\* the text passes decode, shape check, security scan and per-component checks
PassesStep4 == ScanOk /\ EntriesOk /\ UnknownKinds = {}
AllIds == {Val(IdOf(InputComponents[i])) : i \in 1..Len(InputComponents)}
NamesComponent(x) == Tag(x) = "string" /\ Val(x) \in AllIds

\* the value given for the component's properties is null
NullProps(i) == Tag(PropsOf(InputComponents[i])) = "null"
ChildOf(i) == GetProp(PropsOf(InputComponents[i]), "child")
RefOf(i) == GetProp(PropsOf(InputComponents[i]), "ref")
\* a Button whose (non-empty) child is the id of no component
DanglingChild(i) ==
  /\ KindOf(InputComponents[i]) = "Button"
  /\ ~NullProps(i)
  /\ Truthy(ChildOf(i))
  /\ ~NamesComponent(ChildOf(i))
\* a component whose ref property is a non-empty string, the id of no component
DanglingRef(i) ==
  /\ ~NullProps(i)
  /\ Tag(RefOf(i)) = "string"
  /\ Val(RefOf(i)) # ""
  /\ ~NamesComponent(RefOf(i))
Dangling == {i \in 1..Len(InputComponents) : DanglingChild(i) \/ DanglingRef(i)}
NullPropsAt == {i \in 1..Len(InputComponents) : NullProps(i)}

\* C7 as claimed: a surface that passes the earlier checks fails with
\* INVALID_REFERENCE exactly when some Button's child names an id that no
\* component has.
C7_OnlyButtonChild ==
  (Parsed /\ PassesStep4) =>
    (FailsWith("INVALID_REFERENCE")
       <=> \E i \in 1..Len(InputComponents) : DanglingChild(i))

\* C7 as amended: a surface that passes the earlier checks fails with
\* INVALID_REFERENCE exactly when the first component, in list order, that has
\* a dangling reference or a null property value is one with a dangling
\* reference (a Button's non-empty child, or any component's non-empty string
\* ref, that is the id of no component); the error names that component and
\* the target.  Ids are looked up in the whole list, so a reference to a later
\* component is accepted.
C7_References ==
  (Parsed /\ PassesStep4) =>
    LET bad == Dangling \cup NullPropsAt
    IN /\ FailsWith("INVALID_REFERENCE") <=> (bad # {} /\ Least(bad) \in Dangling)
       /\ FailsWith("INVALID_REFERENCE") =>
            /\ result.error.details.componentId = IdOf(InputComponents[Least(bad)])
            /\ result.error.details.referencedId
                 = IF DanglingChild(Least(bad)) THEN ChildOf(Least(bad)) ELSE RefOf(Least(bad))
       /\ bad = {} => result.kind = "success"

\* an accepted surface whose first component is a Button that names the second
C7_Witness ==
  /\ pc = "parsed"
  /\ result.kind = "success"
  /\ Len(InputComponents) = 2
  /\ KindOf(InputComponents[1]) = "Button"
  /\ ChildOf(1) = IdOf(InputComponents[2])

\* the positions whose id already occurs at an earlier position
DuplicateAt ==
  {j \in 1..Len(InputComponents) :
     /\ Tag(IdOf(InputComponents[j])) # "undefined"
     /\ \E i \in 1..(j - 1) : IdOf(InputComponents[i]) = IdOf(InputComponents[j])}

\* C8: the ids of an accepted surface are non-empty strings, pairwise
\* distinct; a components list in which two entries share an id is never
\* accepted, and fails with SCHEMA_INVALID (naming the id and the position of
\* its second occurrence) when nothing before it is violated.
C8_UniqueIds ==
  Parsed =>
    /\ result.kind = "success" =>
         LET cs == ComponentsOf(result.data)
         IN /\ \A i \in 1..Len(cs) : Tag(IdOf(cs[i])) = "string" /\ Val(IdOf(cs[i])) # ""
            /\ \A i, j \in 1..Len(cs) : i # j => IdOf(cs[i]) # IdOf(cs[j])
    /\ (ShapeOk /\ DuplicateAt # {}) => result.kind = "failure"
    /\ ( /\ ScanOk
         /\ DuplicateAt # {}
         /\ \A i \in 1..Least(DuplicateAt) :
              validateComponentEntry(InputComponents[i], i - 1).valid
         /\ \A i \in 1..(Least(DuplicateAt) - 1) : KindOf(InputComponents[i]) \in SevenKinds )
       => /\ FailsWith("SCHEMA_INVALID")
          /\ result.error.details
               = [id |-> IdOf(InputComponents[Least(DuplicateAt)]),
                  index |-> Least(DuplicateAt) - 1]

\* two valid components sharing an id
C8_Witness ==
  /\ pc = "parsed"
  /\ ScanOk
  /\ DuplicateAt = {2}
  /\ FailsWith("SCHEMA_INVALID")
  /\ KindOf(InputComponents[2]) \in SevenKinds

\* the positions of the entries that violate a per-component check
ComponentViolations ==
  {i \in 1..Len(InputComponents) :
     \/ ~validateComponentEntry(InputComponents[i], i - 1).valid
     \/ i \in DuplicateAt
     \/ KindOf(InputComponents[i]) \notin SevenKinds}

\* C9: parse reports the error of the first violated pass, in the order
\* decode, shape check, security scan, per-component checks (in list order;
\* per entry: entry shape, duplicate id, kind), reference resolution.
C9_FirstViolationWins ==
  Parsed =>
    IF Tag(text) = "garbage" THEN FailsWith("JSON_SYNTAX")
    ELSE IF ~ShapeOk THEN FailsWith("SCHEMA_INVALID")
    ELSE IF DangerousLeaves # {} THEN FailsWith("SECURITY_VIOLATION")
    ELSE IF ComponentViolations # {}
    THEN LET i == Least(ComponentViolations)
         IN IF \/ ~validateComponentEntry(InputComponents[i], i - 1).valid
               \/ i \in DuplicateAt
            THEN FailsWith("SCHEMA_INVALID")
            ELSE FailsWith("UNKNOWN_COMPONENT")
    ELSE IF Dangling # {} THEN FailsWith("INVALID_REFERENCE")
    ELSE TRUE

\* the printed text, as a syntax tree: its members are in the order printed
PrintedComponents(t) == ComponentsOf(Val(t))
IsSortedBy(keys, Less(_, _)) == \A i, j \in 1..Len(keys) : i < j => Less(keys[i], keys[j])
\* integer-index keys first, in ascending numeric order, then the other keys
\* in ascending code-unit order
CanonicalLess(a, b) ==
  IF IsArrayIndex(a) /\ IsArrayIndex(b) THEN IndexValue(a) < IndexValue(b)
  ELSE IF IsArrayIndex(a) THEN TRUE
  ELSE IF IsArrayIndex(b) THEN FALSE
  ELSE StrLess(a, b)

\* print keeps the components of the accepted surface in order, with their
\* ids, kinds and property keys, the keys of each component ordered by Less
PrintKeeps(Less(_, _)) ==
  /\ Tag(printed) = "json"
  /\ LET cs == ComponentsOf(result.data)
         ps == PrintedComponents(printed)
     IN /\ Len(ps) = Len(cs)
        /\ \A i \in 1..Len(cs) :
             /\ IdOf(ps[i]) = IdOf(cs[i])
             /\ ObjectKeys(GetProp(ps[i], "component")) = <<KindOf(cs[i])>>
             /\ {ObjectKeys(PropsOf(ps[i]))[k] : k \in 1..Len(ObjectKeys(PropsOf(ps[i])))}
                  = {ObjectKeys(PropsOf(cs[i]))[k] : k \in 1..Len(ObjectKeys(PropsOf(cs[i])))}
             /\ IsSortedBy(ObjectKeys(PropsOf(ps[i])), Less)

RoundTrip(Less(_, _)) ==
  /\ pc \in {"printed", "reparsed", "reprinted"} => PrintKeeps(Less)
  /\ pc \in {"reparsed", "reprinted"} => reparsed.kind = "success"
  /\ pc = "reprinted" => reprinted = printed

RouteCalls == Cardinality({i \in 1..Len(log) : log[i][1] = "route"})
ResultEvents == SelectSeq(log, LAMBDA e : e[1] = "result")
Asked(phase) == \E i \in 1..Len(log) : log[i][1] = "llm" /\ log[i][2] = phase
ErrorSurfaceRequests == SelectSeq(log, LAMBDA e : e[1] = "llm" /\ e[2] = "generating_error_ui")
Ended == apc = "done"
LLMFailed == outcome.kind = "threw" /\ \E i \in 1..Len(LLMErrorCodes) : outcome.error = LLMErrorCodes[i]
EveryResultTimesOut ==
  \A i \in 1..Len(ResultEvents) :
    ResultEvents[i][2] = "failure" /\ ResultEvents[i][3] = "TIMEOUT"
Rejected == parseResult.kind \in {"failure", "throws"}
LastEntry(contextArg) ==
  LET history == Val(GetProp(contextArg, "conversationHistory"))
  IN history[Len(history)]

\* the retry-bound scenario: three attempts allowed, the tool always times out
TimeoutScenario ==
  /\ call = "processAction"
  /\ Val(maxRetries) = DefaultMaxRetries
  /\ EveryResultTimesOut

C1_AtEnd ==
  (TimeoutScenario /\ Ended /\ ~LLMFailed) =>
    /\ RouteCalls = 3
    /\ Len(ErrorSurfaceRequests) = 1
    /\ log[Len(log)] = Event("llm", "generating_error_ui", "MAX_RETRIES")
    /\ CodeOf(GetProp(request, "error")) = "MAX_RETRIES"
    /\ outcome.kind = "returned" => outcome.type = "error"
    /\ outcome.kind = "returned" <=> ~Rejected

\* C1: with maxRetries = 3 and a tool whose every result fails with TIMEOUT,
\* a processAction call none of whose LLM requests fails calls the router
\* exactly 3 times (and never more on the way), then asks once for an error
\* surface for the code MAX_RETRIES, as its last request, and the response it
\* returns has type "error" (it returns unless the validator rejects that
\* surface); and every call that was started ends.
C1_RetryBound ==
  /\ [](C1_AtEnd /\ (TimeoutScenario => RouteCalls <= 3))
  /\ (call = "processAction") ~> Ended

C1_Witness ==
  /\ TimeoutScenario
  /\ Ended
  /\ RouteCalls = 3
  /\ Len(ResultEvents) = 3
  /\ outcome.kind = "returned"
  /\ outcome.type = "error"
  /\ CodeOf(GetProp(LastEntry(outcome.context), "error")) = "MAX_RETRIES"

FirstResultNonRetryable ==
  /\ call = "processAction"
  /\ Len(ResultEvents) >= 1
  /\ ResultEvents[1][2] = "failure"
  /\ ResultEvents[1][3] \in {"UNAUTHORIZED", "FORBIDDEN", "NOT_FOUND"}

\* C2: once the first tool result of a processAction call is a failure whose
\* code is UNAUTHORIZED, FORBIDDEN or NOT_FOUND, the decision is Error on
\* that attempt: the router has been called once and is never called again,
\* the inferring_adjustments phase is never requested, the only LLM request
\* is the one for an error surface, made for the tool's own error, and a
\* response that is returned has type "error" and records that error.
C2_NonRetryableShortCircuit ==
  FirstResultNonRetryable =>
    /\ RouteCalls = 1
    /\ Len(ResultEvents) = 1
    /\ retryCount = 0
    /\ ~Asked("inferring_adjustments")
    /\ ~Asked("generating_result_ui")
    /\ apc \in {"observed", "decided", "generating_error_ui", "done"}
    /\ apc = "decided" => decision.type = DecisionType.ERROR
    /\ apc \in {"generating_error_ui", "done"} =>
         /\ Len(ErrorSurfaceRequests) = 1
         /\ log[Len(log)] = Event("llm", "generating_error_ui", ResultEvents[1][3])
         /\ GetProp(request, "error") = GetProp(toolResult, "error")
    /\ outcome.kind = "returned" =>
         /\ outcome.type = "error"
         /\ GetProp(LastEntry(outcome.context), "error") = GetProp(toolResult, "error")

C2_Witness ==
  /\ FirstResultNonRetryable
  /\ ResultEvents[1][3] = "FORBIDDEN"
  /\ Ended
  /\ outcome.kind = "returned"
  /\ outcome.type = "error"

\* C3: a response that process or processAction returns carries the surface
\* that parse accepted for the candidate of that call's UI phase; and when
\* parse rejects the candidate (by an error result or by throwing), the call
\* ends there by throwing, with no surface, and sends no request to the LLM
\* or to the router in that step or after it.
C3_OnlyValidatedSurfaces ==
  /\ [](/\ outcome.kind = "returned" =>
             /\ Tag(candidate) # "undefined"
             /\ parse(jsonStringOf(candidate)).kind = "success"
             /\ outcome.ui = parse(jsonStringOf(candidate)).data
        /\ Rejected =>
             /\ Ended
             /\ outcome.kind = "threw"
             /\ Tag(outcome.ui) = "undefined")
  /\ [][(Rejected \/ Rejected') => log' = log]_vars

C3_Witness ==
  /\ call = "processAction"
  /\ Ended
  /\ RouteCalls >= 2
  /\ Asked("generating_error_ui")
  /\ parseResult.kind = "failure"
  /\ outcome.kind = "threw"

(***************************************************************************)
(* The action router (ActionRouter) and the tool registry it executes      *)
(* through.                                                                *)
(***************************************************************************)

\* Number.isNaN(x): NaN is a number that is no numeral
NaN == <<"NaN", 0>>

\* typeof x
typeOf(x) ==
  CASE Tag(x) \in {"null", "array", "object"} -> "object"
    [] Tag(x) = "NaN" -> "number"
    [] OTHER -> Tag(x)

\* x === '' (strict equality with the empty string)
IsEmptyString(x) == Tag(x) = "string" /\ Val(x) = ""

RECURSIVE TrimStart(_)
TrimStart(s) ==
  IF Len(s) > 0 /\ IsSpace(Chr(s, 1)) THEN TrimStart(SubSeq(s, 2, Len(s))) ELSE s

RECURSIVE TrimEnd(_)
TrimEnd(s) ==
  IF Len(s) > 0 /\ IsSpace(Chr(s, Len(s))) THEN TrimEnd(SubSeq(s, 1, Len(s) - 1)) ELSE s

\* s.trim()
Trim(s) == TrimEnd(TrimStart(s))

\* s.split(c), for a one-character separator
RECURSIVE SplitFrom(_, _, _, _)
SplitFrom(s, c, i, start) ==
  IF i > Len(s) THEN <<SubSeq(s, start, Len(s))>>
  ELSE IF Chr(s, i) = c
  THEN <<SubSeq(s, start, i - 1)>> \o SplitFrom(s, c, i + 1, i + 1)
  ELSE SplitFrom(s, c, i + 1, start)

split(s, c) == SplitFrom(s, c, 1, 1)

\* parts.join(c)
RECURSIVE join(_, _)
join(parts, c) ==
  IF Len(parts) = 0 THEN ""
  ELSE IF Len(parts) = 1 THEN parts[1]
  ELSE parts[1] \o c \o join(Tail(parts), c)

\* Number(s) of a string: white space around it is ignored, the empty string is 0, a
\* decimal numeral is its value, and the other strings used here are not numbers
NumberOf(s) ==
  LET t == Trim(s)
  IN IF t = "" THEN Num(0)
     ELSE IF \A i \in 1..Len(t) : IsDigit(Chr(t, i)) THEN Num(IndexValue(t))
     ELSE NaN

\* JSON.parse(s) of the strings used here: "{}" and "[]" are documents, the others
\* that start with a brace or a bracket are cut short and throw
JSONparseString(s) ==
  LET t == Trim(s)
  IN IF t = "{}" THEN [ok |-> TRUE, value |-> Obj(<<>>)]
     ELSE IF t = "[]" THEN [ok |-> TRUE, value |-> Arr(<<>>)]
     ELSE [ok |-> FALSE, value |-> Undefined]

\* delete obj[k]
DeleteMember(members, k) == SelectSeq(members, LAMBDA m : m[1] # k)

\* a parameter definition and a registered tool
Param(name, type, required) == [name |-> name, type |-> type, required |-> required]
Tool(action_id, name, parameters) ==
  [action_id |-> action_id, name |-> name, parameters |-> parameters]

NoTool == Tool("", "", <<>>)

\* the registry: the two tools of the repository this model routes to, one with a
\* parameter of every coerced type, and one that requires a parameter of each type
\* that is no string
Tools ==
  << Tool("create_instance", "Create Instance",
          << Param("instanceName", "string", TRUE),
             Param("instanceType", "string", TRUE),
             Param("region", "string", TRUE),
             Param("tags", "object", FALSE) >>),
     Tool("list_instances", "List Instances",
          << Param("region", "string", FALSE),
             Param("state", "string", FALSE) >>),
     Tool("scale_instance", "Scale Instance",
          << Param("count", "Number", TRUE),
             Param("force", "boolean", FALSE),
             Param("tags", "object", FALSE),
             Param("zones", "array", FALSE),
             Param("note", "string", FALSE) >>),
     Tool("tag_instance", "Tag Instance",
          << Param("force", "boolean", TRUE),
             Param("tags", "object", TRUE),
             Param("zones", "array", TRUE) >>) >>

\* this.tools.get(actionId) || null
registryHas(actionId) == \E i \in 1..Len(Tools) : Tools[i].action_id = actionId
registryGet(actionId) ==
  IF registryHas(actionId)
  THEN Tools[CHOOSE i \in 1..Len(Tools) : Tools[i].action_id = actionId]
  ELSE NoTool

validateType(value, expectedType) ==
  LET t == ToLower(expectedType)
  IN CASE t = "string" -> typeOf(value) = "string"
       [] t = "number" -> Tag(value) = "number"
       [] t = "boolean" -> typeOf(value) = "boolean"
       [] t = "object" -> Tag(value) = "object"
       [] t = "array" -> Tag(value) = "array"
       [] OTHER -> TRUE

RECURSIVE KeyValuePairs(_, _)
KeyValuePairs(pairs, members) ==
  IF Len(pairs) = 0 THEN members
  ELSE LET parts == split(Head(pairs), "=")
           key == parts[1]
           valueParts == Tail(parts)
       IN KeyValuePairs(Tail(pairs),
            IF key # "" /\ Len(valueParts) > 0
            THEN SetMember(members, Trim(key), Str(Trim(join(valueParts, "="))))
            ELSE members)

parseKeyValueString(str) ==
  IF str = "" THEN Obj(<<>>) ELSE Obj(KeyValuePairs(split(str, ","), <<>>))

\* value.split(',').map(s => s.trim()).filter(Boolean)
commaSeparated(value) ==
  LET parts == split(value, ",")
      trimmed == [i \in 1..Len(parts) |-> Trim(parts[i])]
      kept == SelectSeq(trimmed, LAMBDA t : t # "")
  IN Arr([i \in 1..Len(kept) |-> Str(kept[i])])

StartsWith(s, c) == Len(s) > 0 /\ Chr(s, 1) = c

\* what one string value of a parameter becomes; Undefined when it is left as it is
coerceString(value, expectedType) ==
  CASE expectedType = "number" ->
         IF NumberOf(value) # NaN THEN NumberOf(value) ELSE Undefined
    [] expectedType = "boolean" -> Bool(value = "true" \/ value = "1")
    [] expectedType = "object" ->
         IF StartsWith(Trim(value), "{")
         THEN IF JSONparseString(value).ok
              THEN JSONparseString(value).value
              ELSE parseKeyValueString(value)
         ELSE IF Contains(value, "=") THEN parseKeyValueString(value)
         ELSE IF Trim(value) = "" THEN Obj(<<>>)
         ELSE Undefined
    [] expectedType = "array" ->
         IF StartsWith(Trim(value), "[") /\ JSONparseString(value).ok
         THEN JSONparseString(value).value
         ELSE commaSeparated(value)
    [] OTHER -> Undefined

RECURSIVE CoerceFrom(_, _, _)
CoerceFrom(defs, params, coerced) ==
  IF Len(defs) = 0 THEN coerced
  ELSE LET paramDef == Head(defs)
           value == GetProp(params, paramDef.name)
           to == coerceString(Val(value), ToLower(paramDef.type))
       IN CoerceFrom(Tail(defs), params,
            IF Tag(value) \in {"undefined", "null"} THEN coerced
            ELSE IF IsEmptyString(value) /\ ~paramDef.required
            THEN DeleteMember(coerced, paramDef.name)
            ELSE IF Tag(value) = "string" /\ to # Undefined
            THEN SetMember(coerced, paramDef.name, to)
            ELSE coerced)

\* the variant that hands the form data on as the form sent it
coerceParameters_AsSent(tool, params) == Spread(Obj(<<>>), params)

coerceParameters(tool, params) ==
  Obj(CoerceFrom(tool.parameters, params, Val(Spread(Obj(<<>>), params))))

\* the names of the required parameters that are undefined, null or the empty string
RECURSIVE missingRequired(_, _)
missingRequired(defs, params) ==
  IF Len(defs) = 0 THEN <<>>
  ELSE LET value == GetProp(params, Head(defs).name)
       IN (IF Head(defs).required
              /\ (Tag(value) \in {"undefined", "null"} \/ IsEmptyString(value))
           THEN <<Str(Head(defs).name)>> ELSE <<>>)
          \o missingRequired(Tail(defs), params)

RECURSIVE typeErrors(_, _)
typeErrors(defs, params) ==
  IF Len(defs) = 0 THEN <<>>
  ELSE LET paramDef == Head(defs)
           value == GetProp(params, paramDef.name)
           missing == paramDef.required
                        /\ (Tag(value) \in {"undefined", "null"} \/ IsEmptyString(value))
       IN (IF ~missing /\ Tag(value) \notin {"undefined", "null"}
              /\ ~validateType(value, paramDef.type)
           THEN << Obj(<< <<"parameter", Str(paramDef.name)>>,
                          <<"expected", Str(paramDef.type)>>,
                          <<"received", Str(typeOf(value))>> >>) >>
           ELSE <<>>)
          \o typeErrors(Tail(defs), params)

StrArray(seq) == Arr([i \in 1..Len(seq) |-> Str(seq[i])])

\* the variant that lets every parameter map through
validateParameters_Lenient(tool, params) ==
  [valid |-> TRUE, message |-> "", details |-> Undefined]

validateParameters(tool, params) ==
  LET missing == missingRequired(tool.parameters, params)
      wrong == typeErrors(tool.parameters, params)
  IN IF Len(missing) > 0
     THEN [valid |-> FALSE,
           message |-> "Missing required parameter: " \o Val(missing[1]),
           details |-> Obj(<< <<"missingRequired", Arr(missing)>>,
                              <<"provided", StrArray(ObjectKeys(params))>> >>)]
     ELSE IF Len(wrong) > 0
     THEN [valid |-> FALSE,
           message |-> "Invalid parameter type for: "
                         \o Val(GetProp(wrong[1], "parameter")),
           details |-> Obj(<< <<"typeErrors", Arr(wrong)>> >>)]
     ELSE [valid |-> TRUE, message |-> "", details |-> Undefined]

ErrorObject(code, message, details) ==
  Obj(<< <<"code", Str(code)>>, <<"message", Str(message)>>, <<"details", details>> >>)

\* the result route builds itself, before the registry is asked to execute
Refusal(code, message, details) ==
  Obj(<< <<"success", Bool(FALSE)>>, <<"data", Null>>,
         <<"error", ErrorObject(code, message, details)>> >>)

Metadata(toolName) ==
  Obj(<< <<"executionTime", Num(0)>>, <<"toolName", toolName>> >>)

\* the result registry.execute builds, as route returns it
Executed(success, data, error, toolName) ==
  Obj(<< <<"success", Bool(success)>>, <<"data", data>>, <<"error", error>>,
         <<"metadata", Metadata(toolName)>> >>)

\* the required parameters registry.execute finds undefined or null
RECURSIVE missingParams(_, _)
missingParams(defs, params) ==
  IF Len(defs) = 0 THEN <<>>
  ELSE (IF Head(defs).required
           /\ Tag(GetProp(params, Head(defs).name)) \in {"undefined", "null"}
        THEN <<Str(Head(defs).name)>> ELSE <<>>)
       \o missingParams(Tail(defs), params)

\* registry.execute up to the call of the handler: the result it returns without
\* calling it, or Undefined when it goes on to call it
executeRefuses(actionId, params) ==
  LET tool == registryGet(Val(actionId))
      missing == missingParams(tool.parameters, params)
  IN IF ~registryHas(Val(actionId))
     THEN Executed(FALSE, Null,
            ErrorObject("TOOL_NOT_FOUND", "No tool registered for action: " \o Val(actionId),
                        Obj(<< <<"actionId", actionId>> >>)),
            Null)
     ELSE IF Len(missing) > 0
     THEN Executed(FALSE, Null,
            ErrorObject("VALIDATION_ERROR",
                        "Missing required parameter: " \o Val(missing[1]),
                        Obj(<< <<"parameter", missing[1]>>,
                               <<"required", Arr(missing)>>,
                               <<"provided", StrArray(ObjectKeys(params))>> >>)),
            Str(tool.name))
     ELSE Undefined

\* route up to the call of the handler: the map it has coerced (Undefined before
\* a tool is resolved) and the result it returns without calling the handler
\* (Undefined when it goes on to call it)
route(actionId, formDataArg) ==
  LET formData == IF formDataArg = Undefined THEN Obj(<<>>) ELSE formDataArg
      tool == registryGet(Val(actionId))
      coercedData == coerceParameters(tool, formData)
      validationResult == validateParameters(tool, coercedData)
  IN IF ~Truthy(actionId) \/ Tag(actionId) # "string"
     THEN [coerced |-> Undefined,
           returns |-> Refusal("INVALID_ACTION_ID",
                               "Action ID must be a non-empty string",
                               Obj(<< <<"actionId", actionId>> >>))]
     ELSE IF ~registryHas(Val(actionId))
     THEN [coerced |-> Undefined,
           returns |-> Refusal("TOOL_NOT_FOUND",
                               "No tool registered for action: " \o Val(actionId),
                               Obj(<< <<"actionId", actionId>> >>))]
     ELSE IF ~validationResult.valid
     THEN [coerced |-> coercedData,
           returns |-> Refusal("VALIDATION_ERROR", validationResult.message,
                               validationResult.details)]
     ELSE [coerced |-> coercedData,
           returns |-> executeRefuses(actionId, coercedData)]

(***************************************************************************)
(* The calls the router is given.                                          *)
(***************************************************************************)
ActionIds ==
  { Str("create_instance"), Str("list_instances"), Str("scale_instance"),
    Str("tag_instance"), Str("delete_instance"), Str(""), Undefined, Num(7) }

Form(members) == Obj(members)

FormDatas ==
  { Undefined,
    Form(<<>>),
    Form(<< <<"instanceType", Str("t2.micro")>>, <<"region", Str("us-east-1")>> >>),
    Form(<< <<"instanceName", Str("web")>>, <<"instanceType", Str("t2.micro")>>,
            <<"region", Str("us-east-1")>> >>),
    Form(<< <<"instanceName", Str("web")>>, <<"instanceType", Str("t2.micro")>>,
            <<"region", Str("us-east-1")>>, <<"tags", Str("")>> >>),
    Form(<< <<"instanceName", Str("")>>, <<"instanceType", Null>>,
            <<"tags", Str("")>>, <<"extra", Str("x")>> >>),
    Form(<< <<"instanceName", Num(5)>>, <<"instanceType", Str("t2.micro")>>,
            <<"region", Str("us-east-1")>>, <<"tags", Str("env=prod, team=a=b")>> >>),
    Form(<< <<"count", Str("42")>> >>),
    Form(<< <<"count", Str("42")>>, <<"force", Str("true")>>, <<"note", Str("")>> >>),
    Form(<< <<"count", Str("abc")>>, <<"force", Str("1")>> >>),
    Form(<< <<"count", Num(3)>>, <<"force", Str("no")>>, <<"zones", Str("")>> >>),
    Form(<< <<"count", Str("")>>, <<"force", Bool(TRUE)>> >>),
    Form(<< <<"count", Str(" 7 ")>>, <<"tags", Str("env=prod,team=ops")>>,
            <<"zones", Str("a, b,,c")>> >>),
    Form(<< <<"count", Str("7")>>, <<"tags", Str("{}")>>, <<"zones", Str("[]")>> >>),
    Form(<< <<"count", Str("7")>>, <<"tags", Str("{oops")>>, <<"zones", Str("[1")>> >>),
    Form(<< <<"count", Str("7")>>, <<"tags", Str("plain")>>, <<"force", Str("")>> >>),
    Form(<< <<"region", Str("")>>, <<"state", Str("running")>> >>),
    Form(<< <<"force", Str("")>>, <<"tags", Str("")>>, <<"zones", Str("")>> >>),
    Form(<< <<"force", Str("true")>>, <<"tags", Str("env=prod")>>, <<"zones", Null>> >>) }

\* what a handler returns, and the message of what it throws
HandlerData == { Obj(<< <<"instances", Arr(<<>>)>> >>), Undefined }
HandlerErrors == { "Quota exceeded" }

(***************************************************************************)
(* The router as a state machine: one call of route, which ends at once or *)
(* waits for the handler it called.                                        *)
(***************************************************************************)
RouterInit ==
  /\ PageAtRest
  /\ ChatAtRest
  /\ ParserAtRest
  /\ AgentAtRest
  /\ EndpointAtRest
  /\ BindingAtRest
  /\ RendererAtRest
  /\ rActionId \in ActionIds
  /\ rFormData \in FormDatas
  /\ rpc = "called"
  /\ rCoerced = Undefined
  /\ rInvoked = <<>>
  /\ rResult = Undefined

\* route(actionId, formData), to its return or to the call of the handler
RouteCall ==
  /\ rpc = "called"
  /\ LET r == route(rActionId, rFormData)
     IN /\ rCoerced' = r.coerced
        /\ IF r.returns # Undefined
           THEN /\ rResult' = r.returns
                /\ rInvoked' = rInvoked
                /\ rpc' = "returned"
           ELSE /\ rResult' = rResult
                /\ rInvoked' = Append(rInvoked, <<Val(rActionId), r.coerced>>)
                /\ rpc' = "handler"
  /\ UNCHANGED <<rActionId, rFormData>>
  /\ UNCHANGED <<parserVars, agentVars, endpointVars, bindingVars, rendererVars, chatVars,
                 pageVars>>

\* the handler returns, and registry.execute and route pass its result on
HandlerReturns ==
  /\ rpc = "handler"
  /\ \E data \in HandlerData :
       rResult' = Executed(TRUE, data, Null, Str(registryGet(Val(rActionId)).name))
  /\ rpc' = "returned"
  /\ UNCHANGED <<rActionId, rFormData, rCoerced, rInvoked>>
  /\ UNCHANGED <<parserVars, agentVars, endpointVars, bindingVars, rendererVars, chatVars,
                 pageVars>>

\* the handler throws, and registry.execute catches
HandlerThrows ==
  /\ rpc = "handler"
  /\ \E message \in HandlerErrors :
       rResult' =
         Executed(FALSE, Null,
           ErrorObject("EXECUTION_ERROR", "Tool execution failed",
             Obj(<< <<"toolName", Str(registryGet(Val(rActionId)).name)>>,
                    <<"error", Str(message)>> >>)),
           Str(registryGet(Val(rActionId)).name))
  /\ rpc' = "returned"
  /\ UNCHANGED <<rActionId, rFormData, rCoerced, rInvoked>>
  /\ UNCHANGED <<parserVars, agentVars, endpointVars, bindingVars, rendererVars, chatVars,
                 pageVars>>

RouterNext == RouteCall \/ HandlerReturns \/ HandlerThrows

RouterSpec == RouterInit /\ [][RouterNext]_vars

(***************************************************************************)
(* The router's claims.                                                    *)
(***************************************************************************)
rTool == registryGet(Val(rActionId))
rForm == IF Tag(rFormData) = "undefined" THEN Obj(<<>>) ELSE rFormData
rParams == {rTool.parameters[i] : i \in 1..Len(rTool.parameters)}

\* the action id is a non-empty string: one a tool is registered for, or not
KnownAction ==
  Tag(rActionId) = "string" /\ Val(rActionId) # "" /\ registryHas(Val(rActionId))
UnknownAction ==
  Tag(rActionId) = "string" /\ Val(rActionId) # "" /\ ~registryHas(Val(rActionId))

RouteReturned == rpc = "returned"
ErrorCodeIs(code) ==
  /\ Tag(GetProp(rResult, "error")) = "object"
  /\ GetProp(GetProp(rResult, "error"), "code") = Str(code)
ErrorDetails == GetProp(GetProp(rResult, "error"), "details")

\* the required parameters the form does not have, and those the coerced map has
\* as undefined, null or ""
AbsentRequired ==
  {p \in rParams : p.required /\ Tag(GetProp(rForm, p.name)) = "undefined"}
MissingAfterCoercion ==
  {p \in rParams :
     /\ p.required
     /\ \/ Tag(GetProp(rCoerced, p.name)) \in {"undefined", "null"}
        \/ IsEmptyString(GetProp(rCoerced, p.name))}

\* the map has every required parameter, and each parameter it has is of its type
PassesValidation(params) ==
  \A p \in rParams :
    LET value == GetProp(params, p.name)
    IN /\ p.required => Tag(value) \notin {"undefined", "null"} /\ ~IsEmptyString(value)
       /\ Tag(value) \notin {"undefined", "null"} =>
            CASE ToLower(p.type) = "string" -> Tag(value) = "string"
              [] ToLower(p.type) = "number" -> Tag(value) = "number"
              [] ToLower(p.type) = "boolean" -> Tag(value) = "boolean"
              [] ToLower(p.type) = "object" -> Tag(value) = "object"
              [] ToLower(p.type) = "array" -> Tag(value) = "array"
              [] OTHER -> TRUE

NamesIn(array) == {Val(Val(array)[i]) : i \in 1..Len(Val(array))}

\* C11: route calls a handler at most once, only the handler of the registered tool
\* the action id names, and only with a map that has every required parameter and
\* every parameter of its declared type. A call whose action id (a non-empty string)
\* names no registered tool returns TOOL_NOT_FOUND, and a call that leaves a required
\* parameter of the tool out returns VALIDATION_ERROR whose details list, under
\* missingRequired, the required parameters that are missing (the absent ones among
\* them) and, under provided, the keys of the map that was validated; in both cases
\* no handler was called.
C11_HandlerOnlyAfterValidation ==
  /\ Len(rInvoked) <= 1
  /\ rInvoked # <<>> =>
       /\ KnownAction
       /\ rInvoked[1][1] = rTool.action_id
       /\ PassesValidation(rInvoked[1][2])
  /\ RouteReturned /\ UnknownAction =>
       /\ ErrorCodeIs("TOOL_NOT_FOUND")
       /\ GetProp(rResult, "success") = Bool(FALSE)
       /\ rInvoked = <<>>
  /\ RouteReturned /\ KnownAction /\ AbsentRequired # {} =>
       /\ ErrorCodeIs("VALIDATION_ERROR")
       /\ GetProp(rResult, "success") = Bool(FALSE)
       /\ Tag(GetProp(ErrorDetails, "missingRequired")) = "array"
       /\ NamesIn(GetProp(ErrorDetails, "missingRequired"))
            = {p.name : p \in MissingAfterCoercion}
       /\ {p.name : p \in AbsentRequired}
            \subseteq NamesIn(GetProp(ErrorDetails, "missingRequired"))
       /\ GetProp(ErrorDetails, "provided") = StrArray(ObjectKeys(rCoerced))
       /\ rInvoked = <<>>

\* the scenario of the specification: create_instance without instanceName
C11_Witness ==
  /\ RouteReturned
  /\ rActionId = Str("create_instance")
  /\ rFormData = Form(<< <<"instanceType", Str("t2.micro")>>,
                         <<"region", Str("us-east-1")>> >>)
  /\ ErrorCodeIs("VALIDATION_ERROR")
  /\ GetProp(ErrorDetails, "missingRequired") = Arr(<<Str("instanceName")>>)
  /\ GetProp(ErrorDetails, "provided") = Arr(<<Str("instanceType"), Str("region")>>)
  /\ rInvoked = <<>>

\* a string that is a decimal numeral once the white space around it is dropped
IsNumeral(v) ==
  Trim(v) # "" /\ \A i \in 1..Len(Trim(v)) : IsDigit(Chr(Trim(v), i))

SentAsString(p) == Tag(GetProp(rForm, p.name)) = "string"
Sent(p) == Val(GetProp(rForm, p.name))

CallerCells == 1..Len(Stored(context))

AgentReturned == apc = "done" /\ outcome.kind = "returned"
AgentThrew == apc = "done" /\ outcome.kind = "threw"

\* C13: at every point of process and processAction, and after they have returned
\* or thrown, the caller's context object, its conversationHistory list and its
\* retryInfo hold what they held when the call was made; the call's working context
\* and the context it returns are objects the call created, and the returned one
\* holds the value the response carries.
C13_CallerContextUntouched ==
  /\ callerRef = 1
  /\ Len(heap) >= Len(Stored(context))
  /\ \A a \in CallerCells : heap[a] = Stored(context)[a]
  /\ Deref(heap, callerRef) = context
  /\ currentRef # NoRef =>
       /\ currentRef \notin CallerCells
       /\ Deref(heap, currentRef) = currentContext
  /\ AgentReturned =>
       /\ returnedRef \in 1..Len(heap)
       /\ returnedRef \notin CallerCells
       /\ Tag(GetProp(heap[returnedRef], "conversationHistory")) = "ref"
       /\ Val(GetProp(heap[returnedRef], "conversationHistory")) \notin CallerCells
       /\ Deref(heap, returnedRef) = outcome.context
  /\ AgentThrew => returnedRef = NoRef

\* a processAction that retried and returned, called with a context that has a
\* history and a retryInfo
C13_Witness ==
  /\ call = "processAction"
  /\ AgentReturned
  /\ retryCount >= 1
  /\ context = CallerContexts[2]
  /\ Len(heap) > Len(Stored(context)) + 3
  /\ \A a \in CallerCells : heap[a] = Stored(context)[a]

\* the conversationHistory of a context, empty when it has none
HistoryOf(contextArg) ==
  IF Tag(GetProp(contextArg, "conversationHistory")) = "array"
  THEN Val(GetProp(contextArg, "conversationHistory"))
  ELSE <<>>

\* C14: when process or processAction returns, the conversationHistory of the
\* returned context is the caller's history (none counts as empty) followed by one
\* new entry, which carries a timestamp: the old entries are all there, in their
\* order and as they were, whatever the number of retries.
C14_OneEntryAppended ==
  AgentReturned =>
    /\ Tag(GetProp(outcome.context, "conversationHistory")) = "array"
    /\ Len(HistoryOf(outcome.context)) = Len(HistoryOf(context)) + 1
    /\ SubSeq(HistoryOf(outcome.context), 1, Len(HistoryOf(context))) = HistoryOf(context)
    /\ Tag(HistoryOf(outcome.context)[Len(HistoryOf(outcome.context))]) = "object"
    /\ HasKey(Val(HistoryOf(outcome.context)[Len(HistoryOf(outcome.context))]),
              "timestamp")

\* a processAction that returned after two retries, called with a history of one
\* entry
C14_Witness ==
  /\ call = "processAction"
  /\ AgentReturned
  /\ retryCount >= 2
  /\ Len(HistoryOf(context)) = 1
  /\ Len(HistoryOf(outcome.context)) = 2

\* the tool result of the last attempt succeeded
LastAttemptSucceeded ==
  Tag(toolResult) = "object" /\ GetProp(toolResult, "success") = Bool(TRUE)

\* C15: a processAction that returns has made at least one attempt and returns type
\* "result" when the tool result of its last attempt has success true and type
\* "error" when it has not; no decision is ever Continue (every decision is Complete,
\* Retry or Error), so processAction asks for no next-step surface and returns no
\* type "ui".
C15_ResultIffSuccess ==
  /\ decision.type # DecisionType.CONTINUE
  /\ apc = "decided" =>
       decision.type \in {DecisionType.COMPLETE, DecisionType.RETRY, DecisionType.ERROR}
  /\ call = "processAction" =>
       /\ apc # "generating_next_step_ui"
       /\ ~Asked("generating_next_step_ui")
       /\ AgentReturned =>
            /\ RouteCalls >= 1
            /\ outcome.type \in {"result", "error"}
            /\ (outcome.type = "result") = LastAttemptSucceeded

\* both outcomes: a result after a failed first attempt, an error after the last
C15_Witness ==
  /\ call = "processAction"
  /\ AgentReturned
  /\ RouteCalls >= 2
  /\ outcome.type = "result"
  /\ LastAttemptSucceeded

C15_WitnessError ==
  /\ call = "processAction"
  /\ AgentReturned
  /\ outcome.type = "error"
  /\ ~LastAttemptSucceeded

(***************************************************************************)
(* The agent endpoint (POST): the request body is read and validated, the  *)
(* agent is called, and what the agent throws is mapped to a status.       *)
(***************************************************************************)
\* 'action_id' in body, for a body the operator applies to
InBody(body, k) ==
  CASE Tag(body) = "object" -> HasKey(Val(body), k)
    [] OTHER -> FALSE

\* the operator in throws a TypeError on what is not an object
InThrows(body) == Tag(body) \notin {"object", "array"}

Rejects(message) == [valid |-> FALSE, error |-> message]
Passes == [valid |-> TRUE, error |-> ""]

validateQueryRequest(body) ==
  LET query == GetProp(body, "query")
  IN IF ~Truthy(query) \/ Tag(query) # "string"
     THEN Rejects("Missing or invalid query field")
     ELSE IF Len(Trim(Val(query))) = 0 THEN Rejects("Query cannot be empty")
     ELSE Passes

validateActionRequest(body) ==
  LET actionId == GetProp(body, "action_id")
      formData == GetProp(body, "formData")
  IN IF ~Truthy(actionId) \/ Tag(actionId) # "string"
     THEN Rejects("Missing or invalid action_id field")
     ELSE IF Truthy(formData) /\ typeOf(formData) # "object"
     THEN Rejects("formData must be an object")
     ELSE Passes

Response(status, code) == [status |-> status, code |-> code]

\* the variant that answers every failure alike
errorResponse_Uniform(code) == Response(500, "INTERNAL_ERROR")

\* the catch block: the response to what was thrown, by its code
errorResponse(code) ==
  CASE code = "MISSING_API_KEY" -> Response(500, "CONFIGURATION_ERROR")
    [] code = "RATE_LIMITED" -> Response(429, "RATE_LIMITED")
    [] code = "LLM_CONNECTION" -> Response(502, "LLM_CONNECTION")
    [] OTHER -> Response(500, "INTERNAL_ERROR")

\* the failures of the LLM provider, and the others the agent's calls raise (a
\* rejected surface is a plain Error, a bad value a TypeError)
ProviderFailures ==
  {"MISSING_API_KEY", "RATE_LIMITED", "LLM_CONNECTION", "EMPTY_RESPONSE",
   "JSON_PARSE_ERROR"}
OtherFailures == {"Error", "TypeError"}

\* the request bodies: not JSON at all, JSON that is no object, queries, submissions
QueryValues == {Undefined, Null, Str(""), Str("  "), Str("show my instances"), Num(5)}
ActionIdValues == {Null, Str(""), Str("create_instance"), Num(7)}
FormDataValues ==
  {Undefined, Null, Obj(<<>>), Arr(<<>>), Str("abc"), Str(""), Num(5), Num(0),
   Bool(FALSE), Bool(TRUE)}

Bodies ==
  {Garbage(1), Null, Str("query"), Num(3), Arr(<<>>)}
  \cup {Obj(IF q = Undefined THEN <<>> ELSE << <<"query", q>> >>) : q \in QueryValues}
  \cup {Obj(<< <<"action_id", a>> >>
            \o (IF f = Undefined THEN <<>> ELSE << <<"formData", f>> >>)) :
          a \in ActionIdValues, f \in FormDataValues}

EndpointInit ==
  /\ PageAtRest
  /\ ChatAtRest
  /\ ParserAtRest
  /\ AgentAtRest
  /\ RouterAtRest
  /\ BindingAtRest
  /\ RendererAtRest
  /\ eBody \in Bodies
  /\ epc = "received"
  /\ eCalled = "none"
  /\ eFailure = "none"
  /\ eResponse = NoResponse

\* POST up to its first response or to the call of the agent
ReceiveRequest ==
  /\ epc = "received"
  /\ IF Tag(eBody) = "garbage"
     THEN /\ eFailure' = "SyntaxError"
          /\ eResponse' = errorResponse("SyntaxError")
          /\ epc' = "responded"
          /\ UNCHANGED eCalled
     ELSE IF InThrows(eBody)
     THEN /\ eFailure' = "TypeError"
          /\ eResponse' = errorResponse("TypeError")
          /\ epc' = "responded"
          /\ UNCHANGED eCalled
     ELSE LET isFormSubmission == InBody(eBody, "action_id")
              validation == IF isFormSubmission THEN validateActionRequest(eBody)
                            ELSE validateQueryRequest(eBody)
          IN IF ~validation.valid
             THEN /\ eResponse' = Response(400, "VALIDATION_ERROR")
                  /\ epc' = "responded"
                  /\ UNCHANGED <<eCalled, eFailure>>
             ELSE /\ eCalled' = IF isFormSubmission THEN "processAction" ELSE "process"
                  /\ epc' = "agent"
                  /\ UNCHANGED <<eFailure, eResponse>>
  /\ UNCHANGED eBody
  /\ UNCHANGED <<parserVars, agentVars, routerVars, bindingVars, rendererVars, chatVars,
                 pageVars>>

\* the agent's call returns a response
AgentAnswers ==
  /\ epc = "agent"
  /\ eResponse' = Response(200, "")
  /\ epc' = "responded"
  /\ UNCHANGED <<eBody, eCalled, eFailure>>
  /\ UNCHANGED <<parserVars, agentVars, routerVars, bindingVars, rendererVars, chatVars,
                 pageVars>>

\* the agent's call throws, and the catch block answers
AgentFails ==
  /\ epc = "agent"
  /\ \E code \in ProviderFailures \cup OtherFailures :
       /\ eFailure' = code
       /\ eResponse' = errorResponse(code)
  /\ epc' = "responded"
  /\ UNCHANGED <<eBody, eCalled>>
  /\ UNCHANGED <<parserVars, agentVars, routerVars, bindingVars, rendererVars, chatVars,
                 pageVars>>

EndpointNext == ReceiveRequest \/ AgentAnswers \/ AgentFails

EndpointSpec == EndpointInit /\ [][EndpointNext]_vars

(***************************************************************************)
(* The endpoint's claims.                                                  *)
(***************************************************************************)
Responded == epc = "responded"
ClientError == eResponse.status \in 400..499
ServerError == eResponse.status \in 500..599

\* the request fails validation as the claim lists it: a query that is missing,
\* no string or blank; an action_id that is no non-empty string; a formData that
\* is present and no object
IsSubmission == Tag(eBody) = "object" /\ HasKey(Val(eBody), "action_id")
IsQuery == Tag(eBody) \in {"object", "array"} /\ ~IsSubmission
BadQuery ==
  /\ IsQuery
  /\ \/ Tag(GetProp(eBody, "query")) # "string"
     \/ TrimIsEmpty(Val(GetProp(eBody, "query")))
BadActionId ==
  /\ IsSubmission
  /\ \/ Tag(GetProp(eBody, "action_id")) # "string"
     \/ Val(GetProp(eBody, "action_id")) = ""
NonObjectFormData ==
  /\ IsSubmission
  /\ Tag(GetProp(eBody, "formData")) \notin {"undefined", "null", "object", "array"}
TruthyNonObjectFormData == NonObjectFormData /\ Truthy(GetProp(eBody, "formData"))

BracketAt(part) ==
  LET opens == {i \in 2..(Len(part) - 2) :
                  /\ Chr(part, i) = "["
                  /\ \A k \in 1..(i - 1) : IsWordChar(Chr(part, k))
                  /\ \A k \in (i + 1)..(Len(part) - 1) : IsDigit(Chr(part, k))
                  /\ Chr(part, Len(part)) = "]"}
  IN IF opens = {} THEN 0 ELSE CHOOSE i \in opens : TRUE

\* one step of the walk: current[part], or current[key]?.[index]
StepInto(current, part) ==
  LET at == BracketAt(part)
      inner == GetProp(current, SubSeq(part, 1, at - 1))
      index == IndexValue(SubSeq(part, at + 1, Len(part) - 1))
  IN IF at = 0 THEN GetProp(current, part)
     ELSE IF Tag(inner) \in {"null", "undefined"} THEN Undefined
     ELSE GetProp(inner, IndexKey(index))

RECURSIVE WalkPath(_, _)
WalkPath(parts, current) ==
  IF Len(parts) = 0 THEN current
  ELSE IF Tag(current) \in {"null", "undefined"} THEN Undefined
  ELSE WalkPath(Tail(parts), StepInto(current, Head(parts)))

resolvePath(path, dataModel) ==
  IF ~Truthy(path) \/ Tag(path) # "string" \/ ~Truthy(dataModel) THEN Undefined
  ELSE WalkPath(split(Val(path), "."), dataModel)

resolveBinding(binding, dataModel) ==
  IF ~Truthy(binding) THEN Undefined
  ELSE IF typeOf(binding) = "object" /\ Truthy(GetProp(binding, "path"))
  THEN resolvePath(GetProp(binding, "path"), dataModel)
  ELSE IF typeOf(binding) = "object" /\ Tag(GetProp(binding, "literalString")) # "undefined"
  THEN GetProp(binding, "literalString")
  ELSE binding

isLiteralBinding(value) ==
  /\ Truthy(value)
  /\ typeOf(value) = "object"
  /\ Tag(GetProp(value, "literalString")) # "undefined"

\* the data models and the bindings resolved against them
DataModels ==
  { Undefined,
    Obj(<<>>),
    Obj(<< <<"success", Bool(TRUE)>>,
           <<"data", Obj(<< <<"instances",
                              Arr(<< Obj(<< <<"name", Str("web")>> >>) >>)>>,
                            <<"count", Num(0)>>,
                            <<"note", Null>> >>)>> >>) }

PathBinding(path) == Obj(<< <<"path", Str(path)>> >>)
LiteralBinding(value) == Obj(<< <<"literalString", value>> >>)

Bindings ==
  { Undefined, Null, Num(0), Num(7), Bool(FALSE), Bool(TRUE), Str(""), Str("plain"),
    Obj(<<>>), Arr(<<>>), Obj(<< <<"label", Str("x")>> >>),
    LiteralBinding(Str("Hello")), LiteralBinding(Str("")), LiteralBinding(Num(0)),
    LiteralBinding(Null),
    PathBinding("success"), PathBinding("data.count"), PathBinding("data.missing.deep"),
    PathBinding("data.note.deeper"), PathBinding("data.instances[0].name"),
    PathBinding("data.instances[3].name"), PathBinding("rows[0].name"),
    PathBinding("data.count.digits"), PathBinding(""),
    Obj(<< <<"path", Num(5)>> >>),
    Obj(<< <<"path", Str("data.count")>>, <<"literalString", Str("shadowed")>> >>) }

BindingInit ==
  /\ PageAtRest
  /\ ChatAtRest
  /\ ParserAtRest
  /\ AgentAtRest
  /\ RouterAtRest
  /\ EndpointAtRest
  /\ RendererAtRest
  /\ bBinding \in Bindings
  /\ bDataModel \in DataModels
  /\ bpc = "called"
  /\ bResult = Undefined

\* resolveBinding(binding, dataModel) returns
ResolveBinding ==
  /\ bpc = "called"
  /\ bResult' = resolveBinding(bBinding, bDataModel)
  /\ bpc' = "resolved"
  /\ UNCHANGED <<bBinding, bDataModel>>
  /\ UNCHANGED <<parserVars, agentVars, routerVars, endpointVars, rendererVars, chatVars,
                 pageVars>>

BindingNext == ResolveBinding

BindingSpec == BindingInit /\ [][BindingNext]_vars

(***************************************************************************)
(* The data binding's claims.                                              *)
(***************************************************************************)
SameValue(a, b) == Tag(a) = Tag(b) /\ Val(a) = Val(b)

Resolved == bpc = "resolved"
IsPrimitive(x) == Tag(x) \in {"string", "number", "boolean"}
\* an object with a path member, whatever the path is
HasPath(x) == typeOf(x) = "object" /\ Tag(GetProp(x, "path")) # "undefined"
NeitherShape(x) ==
  /\ Tag(x) \notin {"undefined", "null"}
  /\ ~HasPath(x)
  /\ ~isLiteralBinding(x)

\* the path of the binding, walked by hand: the keys the model's paths cross
CrossesMissingKey ==
  /\ HasPath(bBinding)
  /\ Tag(GetProp(bBinding, "path")) = "string"
  /\ Tag(bDataModel) = "object"
  /\ Val(GetProp(bBinding, "path"))
       \in {"data.missing.deep", "data.note.deeper", "data.instances[3].name",
            "rows[0].name", "data.count.digits"}

\* C17: resolveBinding returns a binding that is neither a path binding nor a literal
\* binding as it is, whatever its value (0, false and "" included); it returns the
\* embedded value of a literal binding that is no path binding; and a path binding
\* whose path crosses a missing key resolves to undefined.
C17_NonBindingAsIs ==
  Resolved =>
    /\ NeitherShape(bBinding) => SameValue(bResult, bBinding)
    /\ isLiteralBinding(bBinding) /\ ~HasPath(bBinding) =>
         SameValue(bResult, GetProp(bBinding, "literalString"))
    /\ CrossesMissingKey => bResult = Undefined

\* the same with the falsy primitives taken out: what resolveBinding does keep
C17_ExceptFalsy ==
  Resolved =>
    /\ NeitherShape(bBinding) /\ Truthy(bBinding) => SameValue(bResult, bBinding)
    /\ NeitherShape(bBinding) /\ ~Truthy(bBinding) => bResult = Undefined
    /\ isLiteralBinding(bBinding) /\ ~HasPath(bBinding) =>
         SameValue(bResult, GetProp(bBinding, "literalString"))
    /\ CrossesMissingKey => bResult = Undefined

\* the binding 0 resolves to undefined
C17_Witness ==
  /\ Resolved
  /\ bBinding = Num(0)
  /\ bResult = Undefined

(***************************************************************************)
(* The renderer (VM2Renderer, renderComponent): what it makes of a         *)
(* validated structure. An element is the component it renders and, for a  *)
(* Button, the element of its child.                                       *)
(***************************************************************************)
MaxRendered == 3

Element(id, type, child) == <<"element", id, type, child>>
NoChild == <<>>
\* renderComponent returns null
NullElement == <<"null", Undefined, Undefined, NoChild>>
\* the recursion never returns: the call stack overflows
StackOverflow == <<"RangeError", Undefined, Undefined, NoChild>>

StructureComponents(structure) ==
  GetProp(GetProp(structure, "surfaceUpdate"), "components")

TypeOfEntry(entry) == getComponentType(GetProp(entry, "component"))
PropsOfEntry(entry) == GetProp(GetProp(entry, "component"), Val(TypeOfEntry(entry)))

IsButtonWithChild(entry) ==
  /\ TypeOfEntry(entry) = Str("Button")
  /\ Truthy(GetProp(PropsOfEntry(entry), "child"))

\* componentMap.get(id): the last entry set under the id, Undefined when there is none
componentMapGet(components, id) ==
  LET at == {i \in 1..Len(components) : GetProp(components[i], "id") = id}
  IN IF at = {} THEN Undefined
     ELSE components[CHOOSE i \in at : \A k \in at : k <= i]

\* the variant that suppresses nothing
childIdsOf_None(components) == {}

\* the ids some Button names as its child
childIdsOf(components) ==
  {GetProp(PropsOfEntry(components[i]), "child") :
     i \in {k \in 1..Len(components) : IsButtonWithChild(components[k])}}

\* renderComponent; a chain of children longer than the surface has components
\* goes round a cycle and never ends
RECURSIVE renderComponent(_, _, _)
renderComponent(entry, components, depth) ==
  LET type == TypeOfEntry(entry)
      childDef == componentMapGet(components, GetProp(PropsOfEntry(entry), "child"))
      childComponent == renderComponent(childDef, components, depth + 1)
  IN IF depth > Len(components) THEN StackOverflow
     ELSE IF ~isWhitelisted(type) THEN NullElement
     ELSE IF IsButtonWithChild(entry) /\ childDef # Undefined
     THEN IF childComponent = StackOverflow THEN StackOverflow
          ELSE Element(GetProp(entry, "id"), type, childComponent)
     ELSE Element(GetProp(entry, "id"), type, NoChild)

VM2Renderer(structure) ==
  IF ~Truthy(StructureComponents(structure)) THEN [kind |-> "null", top |-> <<>>]
  ELSE LET components == Val(StructureComponents(structure))
           childIds == childIdsOf(components)
           topLevel == SelectSeq(components,
                                 LAMBDA entry : GetProp(entry, "id") \notin childIds)
           rendered == [i \in 1..Len(topLevel) |->
                          renderComponent(topLevel[i], components, 1)]
       IN IF \E i \in 1..Len(rendered) : rendered[i] = StackOverflow
          THEN [kind |-> "throws", top |-> <<>>]
          ELSE [kind |-> "rendered",
                top |-> SelectSeq(rendered, LAMBDA e : e # NullElement)]

\* the components the rendered surfaces are made of: Texts, Buttons with a Text
\* child, with a Button child, with themselves as child, and without a child
Labelled(id, child) ==
  Entry(Str(id), "Button", Obj(<< <<"child", Str(child)>>, <<"action", GoAction>> >>))

RenderPool ==
  << Entry(Str("c"), "Text", Obj(<< <<"text", Str("Save")>> >>)),
     Entry(Str("b"), "Text", Obj(<< <<"text", Str("hi")>> >>)),
     Labelled("a", "c"),
     Labelled("b", "c"),
     Labelled("a", "a"),
     Labelled("b", "a"),
     Labelled("a", "b"),
     Entry(Str("a"), "Button", Obj(<< <<"action", GoAction>> >>)) >>

\* the structures parse accepts among the surfaces of up to MaxRendered components
\* of the pool
ValidatedSurfaces(pool) ==
  LET texts == UNION {{Surface("s1", [i \in 1..n |-> pool[pick[i]]]) :
                         pick \in [1..n -> 1..Len(pool)]} : n \in 0..MaxRendered}
  IN {parse(t).data : t \in {u \in texts : parse(u).kind = "success"}}

RendererInit ==
  /\ PageAtRest
  /\ ChatAtRest
  /\ ParserAtRest
  /\ AgentAtRest
  /\ RouterAtRest
  /\ EndpointAtRest
  /\ BindingAtRest
  /\ vStructure \in ValidatedSurfaces(RenderPool)
  /\ vpc = "given"
  /\ vRendered = NotRendered

\* VM2Renderer({ structure }) returns or overflows
RenderSurface ==
  /\ vpc = "given"
  /\ vRendered' = VM2Renderer(vStructure)
  /\ vpc' = "rendered"
  /\ UNCHANGED vStructure
  /\ UNCHANGED <<parserVars, agentVars, routerVars, endpointVars, bindingVars, chatVars,
                 pageVars>>

RendererNext == RenderSurface

RendererSpec == RendererInit /\ [][RendererNext]_vars

(***************************************************************************)
(* The renderer's claims.                                                  *)
(***************************************************************************)
vComponents == Val(StructureComponents(vStructure))
vEntries == {vComponents[i] : i \in 1..Len(vComponents)}

Rendered == vpc = "rendered" /\ vRendered.kind = "rendered"
RenderThrew == vpc = "rendered" /\ vRendered.kind = "throws"

\* the ids of the elements rendered at top level, in order
TopIds == [i \in 1..Len(vRendered.top) |-> vRendered.top[i][2]]

\* entry names target as its child
Refers(entry, target) ==
  IsButtonWithChild(entry) /\ GetProp(PropsOfEntry(entry), "child") = IdOf(target)

ReferredByAnother(target) ==
  \E entry \in vEntries : IdOf(entry) # IdOf(target) /\ Refers(entry, target)
SelfReferring(entry) == Refers(entry, entry)

IdsWhere(Keep(_)) ==
  LET kept == SelectSeq(vComponents, Keep)
  IN [i \in 1..Len(kept) |-> IdOf(kept[i])]

NotReferredByAnother(entry) == ~ReferredByAnother(entry)
NotReferred(entry) == ~ReferredByAnother(entry) /\ ~SelfReferring(entry)

\* the surface has a chain of children that comes back to a component
HasCycle ==
  \E entry \in vEntries : renderComponent(entry, vComponents, 1) = StackOverflow

\* C18: the elements rendered at top level are, in the order of the surface, the
\* components that no other component names as its child; a component that only
\* itself names is among them.
C18_TopLevelSet ==
  Rendered => TopIds = IdsWhere(NotReferredByAnother)

\* what the renderer does: a component is at top level exactly when no Button, itself
\* included, names it as its child, so a Button that names itself is rendered nowhere;
\* on the surfaces where every Button's child is a Text the two sets are the same
C18_TopLevelAsRendered ==
  /\ Rendered => TopIds = IdsWhere(NotReferred)
  /\ Rendered /\ (\A entry \in vEntries : ~SelfReferring(entry)) =>
       TopIds = IdsWhere(NotReferredByAnother)
  /\ RenderThrew => HasCycle

\* a Button whose child is itself, alone on its surface, is not rendered
C18_Witness ==
  /\ Rendered
  /\ vComponents = <<Labelled("a", "a")>>
  /\ TopIds = <<>>

\* the Buttons that name a child another Button names too, and the element of such
\* a child
SharedChildren ==
  {target \in vEntries :
     \E e1, e2 \in vEntries :
       IdOf(e1) # IdOf(e2) /\ Refers(e1, target) /\ Refers(e2, target)}
Referrers(target) ==
  SelectSeq(vRendered.top,
            LAMBDA e : /\ componentMapGet(vComponents, e[2]) # Undefined
                       /\ Refers(componentMapGet(vComponents, e[2]), target))
ShowsChild(element, target) ==
  element[4] # NoChild /\ element[4][2] = IdOf(target)

InTop(target) == \E i \in 1..Len(TopIds) : TopIds[i] = IdOf(target)

\* C19: a child that two or more Buttons name is not rendered at top level, the
\* first of those Buttons in the order of the surface is rendered with it, and the
\* later ones are rendered without a child.
C19_FirstReferrerOnly ==
  Rendered =>
    \A target \in SharedChildren :
      /\ ~InTop(target)
      /\ \A i \in 1..Len(Referrers(target)) :
           ShowsChild(Referrers(target)[i], target) = (i = 1)

\* C19 as the renderer behaves: a child that two or more Buttons name is not rendered
\* at top level, and every Button that names it and is rendered at top level is
\* rendered with the child's element inside it.
C19_EveryReferrer ==
  Rendered =>
    \A target \in SharedChildren :
      /\ ~InTop(target)
      /\ \A i \in 1..Len(Referrers(target)) :
           /\ ShowsChild(Referrers(target)[i], target)
           /\ Referrers(target)[i][4] = renderComponent(target, vComponents, 1)

\* two Buttons with the Text c as their child: both are rendered with it
C19_Witness ==
  /\ Rendered
  /\ vComponents = <<Labelled("a", "c"), Labelled("b", "c"), RenderPool[1]>>
  /\ vRendered.top =
       << Element(Str("a"), Str("Button"), Element(Str("c"), Str("Text"), NoChild)),
          Element(Str("b"), Str("Button"), Element(Str("c"), Str("Text"), NoChild)) >>

(***************************************************************************)
(* The kind of a Button's child.                                           *)
(***************************************************************************)
\* the components of the accepted surface that Button i names as its child
ChildTargets(i) ==
  {j \in 1..Len(InputComponents) : IdOf(InputComponents[j]) = ChildOf(i)}

ButtonsWithChild ==
  {i \in 1..Len(InputComponents) :
     KindOf(InputComponents[i]) = "Button" /\ Truthy(ChildOf(i))}

\* C20: in a surface parse accepts, the child of every Button that has one is the id
\* of a component of kind Text, which is then neither a Button nor the Button itself.
C20_ChildIsText ==
  (Parsed /\ result.kind = "success") =>
    \A i \in ButtonsWithChild :
      /\ ChildTargets(i) # {}
      /\ \A j \in ChildTargets(i) : KindOf(InputComponents[j]) = "Text" /\ j # i

\* what parse does ensure: the child of a Button names some component of the surface
C20_ChildExists ==
  (Parsed /\ result.kind = "success") =>
    \A i \in ButtonsWithChild : ChildTargets(i) # {}

\* an accepted surface of two Buttons, each the child of the other
C20_Witness ==
  /\ Parsed
  /\ result.kind = "success"
  /\ ButtonsWithChild = {1, 2}
  /\ ChildTargets(1) = {2}
  /\ ChildTargets(2) = {1}

\* a Button that names itself is accepted too, and a Button that names it overflows
\* the renderer's stack
C20_SelfReferenceRendered ==
  /\ RenderThrew
  /\ \E entry \in vEntries : SelfReferring(entry)

(***************************************************************************)
(* The agent's state field against the documented state machine.           *)
(***************************************************************************)
\* the edges the design's diagram draws
DocumentedEdges ==
  { <<AgentState.IDLE, AgentState.REASONING>>,
    <<AgentState.REASONING, AgentState.ACTING>>,
    <<AgentState.ACTING, AgentState.OBSERVING>>,
    <<AgentState.OBSERVING, AgentState.IDLE>>,
    <<AgentState.OBSERVING, AgentState.DECIDING>>,
    <<AgentState.DECIDING, AgentState.REASONING>>,
    <<AgentState.DECIDING, AgentState.ACTING>> }

\* the edges process and processAction take
CodedEdges ==
  { <<AgentState.IDLE, AgentState.REASONING>>,
    <<AgentState.REASONING, AgentState.ACTING>>,
    <<AgentState.ACTING, AgentState.IDLE>>,
    <<AgentState.IDLE, AgentState.ACTING>>,
    <<AgentState.ACTING, AgentState.OBSERVING>>,
    <<AgentState.OBSERVING, AgentState.DECIDING>>,
    <<AgentState.DECIDING, AgentState.IDLE>>,
    <<AgentState.DECIDING, AgentState.ACTING>> }

\* C21: every change of the agent's state is an edge of the documented state
\* machine (IDLE to REASONING, REASONING to ACTING, ACTING to OBSERVING, OBSERVING to
\* IDLE or to DECIDING, DECIDING to REASONING or to ACTING).
C21_DocumentedEdgesOnly ==
  [][state' # state => <<state, state'>> \in DocumentedEdges]_vars

\* what the code does: every change is one of the eight edges it takes, the step
\* from DECIDING to ACTING is a retry, and no step leaves OBSERVING for IDLE
C21_CodedEdgesOnly ==
  [][state' # state =>
       /\ <<state, state'>> \in CodedEdges
       /\ (state = AgentState.DECIDING /\ state' = AgentState.ACTING)
            => decision.type = DecisionType.RETRY]_vars

\* a form submission has taken the agent from IDLE straight to ACTING
C21_Witness ==
  /\ call = "processAction"
  /\ apc = "route"
  /\ retryCount = 0
  /\ state = AgentState.ACTING

(***************************************************************************)
(* MistralClient.chat (src/unnamed/part_014): one request per attempt; a   *)
(* rate-limited attempt is followed, after a sleep, by the next one.       *)
(***************************************************************************)
DefaultClientRetries == 3

\* this.maxRetries = options.maxRetries || 3
clientMaxRetries(options) ==
  IF Truthy(GetProp(options, "maxRetries"))
  THEN GetProp(options, "maxRetries")
  ELSE Num(DefaultClientRetries)

\* an error as the catch block reads it: whether it is an LLMError, its status and
\* its code; name tells the provider's failures apart
ErrorValue(name, llm, status, code) ==
  [name |-> name, llm |-> llm, status |-> status, code |-> code]

LLMError(code) == ErrorValue("LLMError", TRUE, Undefined, Str(code))

\* x?.[k]
OptionalProp(x, k) == IF ReadThrows(x) THEN Undefined ELSE GetProp(x, k)

\* response.choices?.[0]?.message?.content
contentOf(response) ==
  OptionalProp(OptionalProp(OptionalProp(GetProp(response, "choices"), "0"),
                            "message"),
               "content")

ChatReturned(value) == [kind |-> "returned", value |-> value, code |-> ""]
ChatThrew(code) == [kind |-> "threw", value |-> Undefined, code |-> code]

\* the try block once the provider has answered: the value returned, or the error
\* thrown to the catch block
tryBlock(response, responseFormat) ==
  IF ReadThrows(response)
  THEN [returns |-> FALSE, value |-> Undefined,
        error |-> ErrorValue("TypeError", FALSE, Undefined, Undefined)]
  ELSE IF ~Truthy(contentOf(response))
  THEN [returns |-> FALSE, value |-> Undefined, error |-> LLMError("EMPTY_RESPONSE")]
  ELSE IF responseFormat = "json"
  THEN IF Tag(contentOf(response)) = "json"
       THEN [returns |-> TRUE, value |-> JSONparse(Val(contentOf(response))),
             error |-> LLMError("")]
       ELSE [returns |-> FALSE, value |-> Undefined,
             error |-> LLMError("JSON_PARSE_ERROR")]
  ELSE [returns |-> TRUE, value |-> Obj(<< <<"content", contentOf(response)>> >>),
        error |-> LLMError("")]

\* the variant that takes every failure for a rate limit
isRateLimited_Always(error) == TRUE

\* error.status === 429 || error.code === 'RATE_LIMITED'
isRateLimited(error) ==
  \/ Tag(error.status) = "number" /\ Val(error.status) = 429
  \/ Tag(error.code) = "string" /\ Val(error.code) = "RATE_LIMITED"

\* the catch block: the code of the error it throws, or "" when it sleeps and
\* goes on to the next attempt
catchBlock(error, attempt, limit) ==
  IF error.llm /\ ~(Tag(error.code) = "string" /\ Val(error.code) = "RATE_LIMITED")
  THEN Val(error.code)
  ELSE IF isRateLimited(error) /\ attempt < Val(limit) THEN ""
  ELSE IF isRateLimited(error) THEN "RATE_LIMITED"
  ELSE "LLM_CONNECTION"

(***************************************************************************)
(* What the client's surroundings may supply.                              *)
(***************************************************************************)
MaxClientRetries == 2

ClientOptions ==
  <<Obj(<<>>)>>
    \o [n \in 1..(MaxClientRetries + 1) |-> Obj(<< <<"maxRetries", Num(n - 1)>> >>)]

ResponseFormats == {"json", "text"}

Completion(content) ==
  Obj(<< <<"choices",
           Arr(<< Obj(<< <<"message", Obj(<< <<"content", content>> >>)>> >>) >>)>> >>)

\* the provider's responses: a JSON document, a text that is none, an empty text,
\* no choice at all, a choice without a message, and no response object
Responses ==
  << Completion(JsonText(Obj(<< <<"intent", Str("list")>>, <<"intent", Str("show")>> >>))),
     Completion(Garbage(0)),
     Completion(Str("")),
     Completion(Null),
     Obj(<< <<"choices", Arr(<<>>)>> >>),
     Obj(<< <<"choices", Arr(<< Obj(<<>>) >>)>> >>),
     Obj(<<>>),
     Undefined >>

\* the provider's failures: HTTP 429, an error carrying the code RATE_LIMITED,
\* HTTP 500 and a network failure
ProviderErrors ==
  << ErrorValue("http_429", FALSE, Num(429), Undefined),
     ErrorValue("rate_limited_code", FALSE, Undefined, Str("RATE_LIMITED")),
     ErrorValue("http_500", FALSE, Num(500), Undefined),
     ErrorValue("network", FALSE, Undefined, Str("ECONNRESET")) >>

ChatInit ==
  /\ PageAtRest
  /\ ParserAtRest
  /\ AgentAtRest
  /\ RouterAtRest
  /\ EndpointAtRest
  /\ BindingAtRest
  /\ RendererAtRest
  /\ \E i \in 1..Len(ClientOptions) : cMaxRetries = clientMaxRetries(ClientOptions[i])
  /\ cFormat \in ResponseFormats
  /\ cpc = "idle"
  /\ cAttempt = 0
  /\ cLastError = ""
  /\ cLog = <<>>
  /\ cOutcome = NoChatOutcome

\* the head of the for loop, and the throw that follows the loop
ChatLoopHead(attempt, answered) ==
  IF attempt <= Val(cMaxRetries)
  THEN /\ cLog' = Append(answered, <<"request", "">>)
       /\ cpc' = "request"
       /\ UNCHANGED cOutcome
  ELSE /\ cLog' = answered
       /\ cpc' = "done"
       /\ cOutcome' = ChatThrew(IF cLastError # "" THEN cLastError ELSE "UNKNOWN_ERROR")

\* the catch block on an error
ChatCatch(error, answered) ==
  IF catchBlock(error, cAttempt, cMaxRetries) = ""
  THEN /\ cLastError' = "RATE_LIMITED"
       /\ cpc' = "sleep"
       /\ cLog' = answered
       /\ UNCHANGED cOutcome
  ELSE /\ cOutcome' = ChatThrew(catchBlock(error, cAttempt, cMaxRetries))
       /\ cpc' = "done"
       /\ cLog' = answered
       /\ UNCHANGED cLastError

\* chat is called: the first attempt's request is sent
ChatCall ==
  /\ cpc = "idle"
  /\ cAttempt' = 0
  /\ ChatLoopHead(0, cLog)
  /\ UNCHANGED <<cMaxRetries, cFormat, cLastError>>
  /\ UNCHANGED <<parserVars, agentVars, routerVars, endpointVars, bindingVars,
                 rendererVars, pageVars>>

\* the provider answers with a response
ProviderResponds ==
  /\ cpc = "request"
  /\ \E i \in 1..Len(Responses) :
       LET tried == tryBlock(Responses[i], cFormat)
           answered == Append(cLog, <<"response", IF tried.returns THEN "returned"
                                                  ELSE tried.error.name>>)
       IN IF tried.returns
          THEN /\ cOutcome' = ChatReturned(tried.value)
               /\ cpc' = "done"
               /\ cLog' = answered
               /\ UNCHANGED cLastError
          ELSE ChatCatch(tried.error, answered)
  /\ UNCHANGED <<cMaxRetries, cFormat, cAttempt>>
  /\ UNCHANGED <<parserVars, agentVars, routerVars, endpointVars, bindingVars,
                 rendererVars, pageVars>>

\* the provider's call fails
ProviderThrows ==
  /\ cpc = "request"
  /\ \E i \in 1..Len(ProviderErrors) :
       ChatCatch(ProviderErrors[i], Append(cLog, <<"failure", ProviderErrors[i].name>>))
  /\ UNCHANGED <<cMaxRetries, cFormat, cAttempt>>
  /\ UNCHANGED <<parserVars, agentVars, routerVars, endpointVars, bindingVars,
                 rendererVars, pageVars>>

\* the sleep ends: continue, attempt++, and the loop's head again
SleepEnds ==
  /\ cpc = "sleep"
  /\ cAttempt' = cAttempt + 1
  /\ ChatLoopHead(cAttempt + 1, cLog)
  /\ UNCHANGED <<cMaxRetries, cFormat, cLastError>>
  /\ UNCHANGED <<parserVars, agentVars, routerVars, endpointVars, bindingVars,
                 rendererVars, pageVars>>

ChatNext == ChatCall \/ ProviderResponds \/ ProviderThrows \/ SleepEnds

ChatSpec == ChatInit /\ [][ChatNext]_vars

\* the client's own steps are taken (a call is started, a sleep ends), and the
\* provider answers every request, with a response or a failure
ChatFairSpec ==
  /\ ChatSpec
  /\ WF_vars(ChatCall \/ SleepEnds)
  /\ []<>(cpc # "request")

(***************************************************************************)
(* Claims about MistralClient.chat.                                        *)
(***************************************************************************)
ChatRequests == Cardinality({i \in 1..Len(cLog) : cLog[i][1] = "request"})
ChatEnded == cpc = "done"

\* the provider's failures that are rate limits
RateLimitFailures == {<<"failure", "http_429">>, <<"failure", "rate_limited_code">>}

StructuredCodes == {"RATE_LIMITED", "LLM_CONNECTION", "EMPTY_RESPONSE", "JSON_PARSE_ERROR"}

\* what chat may return: for 'json' the parse of a response's content, for 'text'
\* the content itself in an object
ParsedContents ==
  {JSONparse(Val(contentOf(Responses[i]))) :
     i \in {k \in 1..Len(Responses) :
              ~ReadThrows(Responses[k]) /\ Tag(contentOf(Responses[k])) = "json"}}

WrappedContents ==
  {Obj(<< <<"content", contentOf(Responses[i])>> >>) :
     i \in {k \in 1..Len(Responses) :
              ~ReadThrows(Responses[k]) /\ Truthy(contentOf(Responses[k]))}}

C22_AtEveryStep ==
  /\ ChatRequests <= Val(cMaxRetries) + 1
  /\ \A i \in 2..Len(cLog) :
       cLog[i][1] = "request" => cLog[i - 1] \in RateLimitFailures
  /\ ChatEnded =>
       \/ /\ cOutcome.kind = "returned"
          /\ cLog[Len(cLog)] = <<"response", "returned">>
          /\ cFormat = "json" => cOutcome.value \in ParsedContents
          /\ cFormat = "text" => cOutcome.value \in WrappedContents
       \/ /\ cOutcome.kind = "threw"
          /\ cOutcome.code \in StructuredCodes

\* C22: chat sends at most maxRetries + 1 requests (maxRetries being the client's
\* limit, 3 when none or 0 is configured); a request after the first follows a
\* rate-limit failure of the one before and nothing else; and every call whose
\* requests the provider answers ends, by returning the content (parsed for 'json',
\* wrapped as it is for 'text') or by throwing an error whose code is RATE_LIMITED,
\* LLM_CONNECTION, EMPTY_RESPONSE or JSON_PARSE_ERROR.
C22_BoundedRetries ==
  /\ []C22_AtEveryStep
  /\ (cpc = "idle") ~> ChatEnded

\* a call that was rate limited at every attempt: it has sent maxRetries + 1
\* requests and ended with RATE_LIMITED
C22_Witness ==
  /\ ChatEnded
  /\ ChatRequests = Val(cMaxRetries) + 1
  /\ ChatRequests >= 2
  /\ cOutcome = ChatThrew("RATE_LIMITED")

\* a call that ended on an empty response after one rate limit
C22_WitnessEmpty ==
  /\ ChatEnded
  /\ ChatRequests = 2
  /\ cOutcome = ChatThrew("EMPTY_RESPONSE")

(***************************************************************************)
(* The retry limit an agent was configured with.  The agent keeps only     *)
(* this.maxRetries, so the configurations of an agent are those the        *)
(* constructor maps to the limit it has.                                   *)
(***************************************************************************)
ConfiguredWith(config) ==
  /\ HasKey(Val(config), "maxRetries")
  /\ constructor(config).maxRetries = maxRetries

\* C23: an agent configured with maxRetries = n, for any n >= 0 and 0 too, makes at
\* most n calls to the router in a processAction call.
C23_ConfiguredBound ==
  \A i \in 1..Len(Configs) :
    ConfiguredWith(Configs[i]) => RouteCalls <= Val(GetProp(Configs[i], "maxRetries"))

\* what the code ensures: the calls never exceed this.maxRetries, which is the
\* configured value when that is truthy and 3 otherwise
C23_EffectiveBound ==
  /\ RouteCalls <= Val(maxRetries)
  /\ \A i \in 1..Len(Configs) :
       (ConfiguredWith(Configs[i]) /\ Truthy(GetProp(Configs[i], "maxRetries")))
         => RouteCalls <= Val(GetProp(Configs[i], "maxRetries"))

\* an agent that may have been configured with maxRetries = 0 has called the router
C23_CalledWithZero ==
  /\ ConfiguredWith(Obj(<< <<"maxRetries", Num(0)>> >>))
  /\ RouteCalls = DefaultMaxRetries

(***************************************************************************)
(* The retryInfo a Retry decision leaves in the call's context.            *)
(***************************************************************************)
\* the switch has just taken the RETRY case: the call is at the next attempt's
\* route, or past the loop at the request for the error surface
JustRetried ==
  /\ call = "processAction"
  /\ decision.type = DecisionType.RETRY
  /\ apc \in {"route", "generating_error_ui"}

RetryInfoOf(contextArg) == GetProp(contextArg, "retryInfo")

\* the caller's context carries the retryInfo of an earlier call
CallerCarriesRetryInfo == Truthy(GetProp(RetryInfoOf(context), "attemptNumber"))

FoldsLatest ==
  /\ SameValue(GetProp(RetryInfoOf(currentContext), "previousObservation"), observation)
  /\ SameValue(GetProp(RetryInfoOf(currentContext), "adjustments"), decision.adjustments)

\* C24: after every Retry decision the context's retryInfo holds the latest
\* observation, the latest adjustments and an attemptNumber equal to the number of
\* attempts the current processAction call has made, whatever context the caller
\* passed.
C24_AttemptNumberOfThisCall ==
  JustRetried =>
    /\ FoldsLatest
    /\ SameValue(GetProp(RetryInfoOf(currentContext), "attemptNumber"), Num(retryCount))

\* what the code ensures: the latest observation and adjustments, and an
\* attemptNumber that continues the caller's count
C24_AttemptNumberContinues ==
  JustRetried =>
    /\ FoldsLatest
    /\ SameValue(GetProp(RetryInfoOf(currentContext), "attemptNumber"),
                 Num(retryCount + (IF CallerCarriesRetryInfo
                                   THEN Val(GetProp(RetryInfoOf(context), "attemptNumber"))
                                   ELSE 0)))

\* the first retry of a call whose caller passed a context with attemptNumber 2
C24_Witness ==
  /\ JustRetried
  /\ retryCount = 1
  /\ CallerCarriesRetryInfo
  /\ SameValue(GetProp(RetryInfoOf(currentContext), "attemptNumber"), Num(3))

\* a call that retried twice returns a context whose retryInfo has attemptNumber 2:
\* the context the caller above passed is one an earlier call returns
C24_ReturnedCarriesRetryInfo ==
  /\ outcome.kind = "returned"
  /\ ~CallerCarriesRetryInfo
  /\ SameValue(GetProp(RetryInfoOf(outcome.context), "attemptNumber"), Num(2))

(***************************************************************************)
(* The arguments of the router's calls within one processAction call.      *)
(***************************************************************************)
RouteEvents == SelectSeq(log, LAMBDA e : e[1] = "route")

\* C25: every call of route within one processAction call is given the action id
\* and the form data the caller passed; the adjustments the model infers are
\* recorded in retryInfo and change neither.
C25_SameArguments ==
  /\ \A i \in 1..Len(RouteEvents) :
       /\ RouteEvents[i][2] = Val(ActionId)
       /\ SameValue(RouteEvents[i][3], FormData)
  /\ JustRetried =>
       SameValue(GetProp(RetryInfoOf(currentContext), "adjustments"), decision.adjustments)

\* a retried call: the model suggested another region, and route is called again
C25_Witness ==
  /\ JustRetried
  /\ apc = "route"
  /\ Len(RouteEvents) = 2
  /\ SameValue(decision.adjustments, Obj(<< <<"region", Str("us")>> >>))

(***************************************************************************)
(* Required parameters that are sent empty.                                *)
(***************************************************************************)
\* the form has the required parameter as undefined (or not at all), null or ""
SentEmpty(p) ==
  /\ p.required
  /\ \/ Tag(GetProp(rForm, p.name)) \in {"undefined", "null"}
     \/ IsEmptyString(GetProp(rForm, p.name))

ListedAsMissing(p) ==
  /\ RouteReturned
  /\ ErrorCodeIs("VALIDATION_ERROR")
  /\ Tag(GetProp(ErrorDetails, "missingRequired")) = "array"
  /\ p.name \in NamesIn(GetProp(ErrorDetails, "missingRequired"))

\* C26: a call of route for a registered tool that leaves a required parameter
\* absent, null or "" returns VALIDATION_ERROR with that parameter listed as missing
\* and calls no handler, whatever the parameter's declared type.
C26_EmptyRequiredRefused ==
  rpc # "called" /\ KnownAction =>
    \A p \in rParams : SentEmpty(p) => ListedAsMissing(p) /\ rInvoked = <<>>

\* what the code ensures: so it is for a parameter that is absent or null, and for
\* "" when the declared type is string; a "" sent for a required number, boolean,
\* object or array is coerced to 0, false, {} or [] and is then not missing
C26_ExceptCoercedEmpty ==
  rpc # "called" /\ KnownAction =>
    \A p \in rParams :
      /\ (SentEmpty(p) /\ (~IsEmptyString(GetProp(rForm, p.name))
                            \/ ToLower(p.type) = "string"))
           => ListedAsMissing(p) /\ rInvoked = <<>>
      /\ (SentEmpty(p) /\ IsEmptyString(GetProp(rForm, p.name))
                       /\ ToLower(p.type) # "string")
           => /\ ~ListedAsMissing(p)
              /\ SameValue(GetProp(rCoerced, p.name),
                           CASE ToLower(p.type) = "number" -> Num(0)
                             [] ToLower(p.type) = "boolean" -> Bool(FALSE)
                             [] ToLower(p.type) = "object" -> Obj(<<>>)
                             [] ToLower(p.type) = "array" -> Arr(<<>>))

\* the handler is called with 0 for a required count that was sent as ""
C26_HandlerCalledWithZero ==
  /\ rpc = "handler"
  /\ rFormData = Form(<< <<"count", Str("")>>, <<"force", Bool(TRUE)>> >>)
  /\ rInvoked = << <<"scale_instance",
                     Obj(<< <<"count", Num(0)>>, <<"force", Bool(TRUE)>> >>)>> >>

\* and with false, {} and [] for a required boolean, object and array sent as ""
C26_HandlerCalledWithEmpties ==
  /\ rpc = "handler"
  /\ rInvoked = << <<"tag_instance",
                     Obj(<< <<"force", Bool(FALSE)>>, <<"tags", Obj(<<>>)>>,
                            <<"zones", Arr(<<>>)>> >>)>> >>

(***************************************************************************)
(* The agent's state between calls.                                        *)
(***************************************************************************)
NoCallInProgress == apc \in {"idle", "done"}

\* the LLM request the call was waiting for when it threw
ThrownIn(phase) == AgentThrew /\ log[Len(log)][1] = "llm" /\ log[Len(log)][2] = phase

\* C27: whenever no call is in progress on the agent its state is Idle: a call that
\* returns and a call that throws, in any phase, both leave it in Idle.
C27_IdleBetweenCalls ==
  NoCallInProgress => state = AgentState.IDLE

\* what the code ensures: a call that returns leaves the agent in Idle; a call that
\* throws leaves it in the state the failed await was entered in, which is Idle
\* only for the three generate*UI requests
C27_IdleAfterReturn ==
  /\ apc = "idle" => state = AgentState.IDLE
  /\ AgentReturned => state = AgentState.IDLE
  /\ ThrownIn("reasoning") => state = AgentState.REASONING
  /\ ThrownIn("acting") => state = AgentState.ACTING
  /\ ThrownIn("inferring_adjustments") => state = AgentState.DECIDING
  /\ (\E phase \in UIPhases \ {"acting"} : ThrownIn(phase)) => state = AgentState.IDLE

\* a process call whose reasoning request failed has ended in REASONING
C27_StuckInReasoning ==
  /\ AgentThrew
  /\ call = "process"
  /\ LLMFailed
  /\ state = AgentState.REASONING

\* a process call whose candidate surface was rejected has ended in ACTING
C27_StuckInActing ==
  /\ AgentThrew
  /\ call = "process"
  /\ Rejected
  /\ state = AgentState.ACTING

(***************************************************************************)
(* Termination of the rendering.                                           *)
(***************************************************************************)
\* the component a Button's child names
ChildEntry(entry) ==
  componentMapGet(vComponents, GetProp(PropsOfEntry(entry), "child"))

EveryChildIsText ==
  \A entry \in vEntries :
    IsButtonWithChild(entry) => TypeOfEntry(ChildEntry(entry)) = Str("Text")

\* C28: rendering a surface parse accepted terminates: the chain of children from a
\* top-level component never comes back to a component, so the recursion of
\* renderComponent ends within the number of components of the surface.
C28_RenderingTerminates ==
  vpc = "rendered" => ~RenderThrew

\* what the code ensures: the recursion ends on the surfaces where the child of
\* every Button is a Text; it never ends exactly when a component at top level
\* leads into a chain of Buttons that comes back to itself
C28_TerminatesOnTextChildren ==
  /\ vpc = "rendered" /\ EveryChildIsText => ~RenderThrew
  /\ RenderThrew =>
       \E entry \in vEntries :
         /\ ~(\E other \in vEntries : Refers(other, entry))
         /\ renderComponent(entry, vComponents, 1) = StackOverflow

\* Button b names Button a, which names itself: b is at top level and its rendering
\* never ends
C28_Overflow ==
  /\ RenderThrew
  /\ Len(vComponents) = 2
  /\ \E b \in vEntries :
       /\ ~(\E other \in vEntries : Refers(other, b))
       /\ IsButtonWithChild(b)
       /\ SelfReferring(ChildEntry(b))

(***************************************************************************)
(* A form submitted for an action no tool is registered for.               *)
(***************************************************************************)
FirstResultToolNotFound ==
  /\ call = "processAction"
  /\ Len(ResultEvents) >= 1
  /\ ResultEvents[1][2] = "failure"
  /\ ResultEvents[1][3] = "TOOL_NOT_FOUND"

\* the router answers every attempt with TOOL_NOT_FOUND, as it does for an action
\* id it has no tool for
EveryResultToolNotFound ==
  /\ FirstResultToolNotFound
  /\ \A i \in 1..Len(ResultEvents) :
       ResultEvents[i][2] = "failure" /\ ResultEvents[i][3] = "TOOL_NOT_FOUND"

\* C29: a processAction call whose router result is TOOL_NOT_FOUND ends on its first
\* attempt: route is called once, no adjustments are asked of the model, and the
\* response it returns is an error surface.
C29_ToolNotFoundEndsAtOnce ==
  FirstResultToolNotFound =>
    /\ RouteCalls = 1
    /\ ~Asked("inferring_adjustments")
    /\ outcome.kind = "returned" => outcome.type = "error"

\* what the code does: TOOL_NOT_FOUND is retryable, so the model is asked for
\* adjustments after each such result and the call returns only when the attempts
\* are used up, with the error MAX_RETRIES
C29_ToolNotFoundRetried ==
  EveryResultToolNotFound =>
    /\ apc \notin {"observed"} => Asked("inferring_adjustments")
    /\ outcome.kind = "returned" =>
         /\ RouteCalls = Val(maxRetries)
         /\ outcome.type = "error"
         /\ CodeOf(GetProp(LastEntry(outcome.context), "error")) = "MAX_RETRIES"

\* three attempts, each answered TOOL_NOT_FOUND, and an error surface at the end
C29_RetriedThrice ==
  /\ EveryResultToolNotFound
  /\ RouteCalls = 3
  /\ Asked("inferring_adjustments")
  /\ outcome.kind = "returned"

(***************************************************************************)
(* The page (src/app/page.jsx) and its store (src/store/agentStore.js).    *)
(* A handler reads the isLoading and the agentContext of the latest        *)
(* render; a request is the body posted to /api/agent, and it is in flight *)
(* until the endpoint's response, or the failure of the fetch, arrives.    *)
(***************************************************************************)
MaxRequests == 4

\* if (!query.trim() || isLoading) return
submitReturnsEarly(queryText, loading) == Trim(queryText) = "" \/ loading

\* the variant without the guard
actionReturnsEarly_Never(loading) == FALSE

\* if (isLoading) return
actionReturnsEarly(loading) == loading

\* the input of the query and the Start Over button: disabled={isLoading}
disabledWhileLoading(loading) == loading

\* the body of the request handleSubmit posts, and the one handleAction posts
queryBody(queryText, contextArg) ==
  JSONstringify(Obj(<< <<"query", Str(Trim(queryText))>>, <<"context", contextArg>> >>))

actionBody(actionIdArg, formValuesArg, contextArg) ==
  JSONstringify(Obj(<< <<"action_id", actionIdArg>>, <<"formData", formValuesArg>>,
                       <<"context", contextArg>> >>))

\* what the endpoint reads from a body
BodyOf(textArg) == JSONparse(Val(textArg))
IsActionBody(textArg) == HasKey(Val(BodyOf(textArg)), "action_id")

(***************************************************************************)
(* What the page's surroundings may supply: what the user types, and the   *)
(* endpoint's answers to a body.                                           *)
(***************************************************************************)
QueryTexts == {"", "  ", " list "}

GeneratedUI == Obj(<< <<"surfaceUpdate", Obj(<< <<"surfaceId", Str("s1")>> >>)>> >>)

\* a success carries a surface and the context sent with one more history entry;
\* a failure carries an error; the third answer is no JSON at all
EndpointAnswers(textArg) ==
  << JSONstringify(
       Obj(<< <<"success", Bool(TRUE)>>, <<"type", Str("ui")>>, <<"ui", GeneratedUI>>,
              <<"context",
                updateContext(GetProp(BodyOf(textArg), "context"),
                              Obj(<< <<"completed", Bool(IsActionBody(textArg))>> >>))>> >>)),
     JSONstringify(
       Obj(<< <<"success", Bool(FALSE)>>,
              <<"error", Obj(<< <<"code", Str("INTERNAL_ERROR")>> >>)>> >>)),
     Garbage(0) >>

PageInit ==
  /\ ParserAtRest
  /\ AgentAtRest
  /\ RouterAtRest
  /\ EndpointAtRest
  /\ BindingAtRest
  /\ RendererAtRest
  /\ ChatAtRest
  /\ pQuery = ""
  /\ pContext = Obj(<<>>)
  /\ pUI = Null
  /\ pFormValues = Obj(<<>>)
  /\ pLoading = FALSE
  /\ pHistory = <<>>
  /\ pInFlight = <<>>
  /\ pSent = <<>>
  /\ pLastReturned = Obj(<<>>)

PageFrame ==
  UNCHANGED <<parserVars, agentVars, routerVars, endpointVars, bindingVars, rendererVars,
              chatVars>>

\* the user types in the input of the default view
TypeQuery ==
  /\ ~Truthy(pUI)
  /\ ~disabledWhileLoading(pLoading)
  /\ \E t \in QueryTexts : pQuery' = t
  /\ UNCHANGED <<pContext, pUI, pFormValues, pLoading, pHistory, pInFlight, pSent,
                 pLastReturned>>
  /\ PageFrame

\* handleSubmit, to its return or to the fetch
SubmitQuery ==
  /\ ~Truthy(pUI)
  /\ Len(pSent) < MaxRequests
  /\ IF submitReturnsEarly(pQuery, pLoading)
     THEN UNCHANGED <<pLoading, pInFlight, pSent>>
     ELSE /\ pLoading' = TRUE
          /\ pInFlight' = Append(pInFlight, queryBody(pQuery, pContext))
          /\ pSent' = Append(pSent, queryBody(pQuery, pContext))
  /\ UNCHANGED <<pQuery, pContext, pUI, pFormValues, pHistory, pLastReturned>>
  /\ PageFrame

\* handleValueChange: setFormValue(path, value)
ChangeValue ==
  /\ Truthy(pUI)
  /\ pFormValues' = Obj(SetMember(Val(pFormValues), "name", Str("web")))
  /\ UNCHANGED <<pQuery, pContext, pUI, pLoading, pHistory, pInFlight, pSent,
                 pLastReturned>>
  /\ PageFrame

\* handleAction, to its return or to the fetch
ClickAction ==
  /\ Truthy(pUI)
  /\ Len(pSent) < MaxRequests
  /\ IF actionReturnsEarly(pLoading)
     THEN UNCHANGED <<pLoading, pInFlight, pSent>>
     ELSE /\ pLoading' = TRUE
          /\ pInFlight' = Append(pInFlight, actionBody(Str("go"), pFormValues, pContext))
          /\ pSent' = Append(pSent, actionBody(Str("go"), pFormValues, pContext))
  /\ UNCHANGED <<pQuery, pContext, pUI, pFormValues, pHistory, pLastReturned>>
  /\ PageFrame

\* handleReset, from the Start Over button of the generated view
StartOver ==
  /\ Truthy(pUI)
  /\ ~disabledWhileLoading(pLoading)
  /\ pUI' = Null
  /\ pFormValues' = Obj(<<>>)
  /\ pHistory' = <<>>
  /\ pContext' = Obj(<<>>)
  /\ pQuery' = ""
  /\ pLastReturned' = Obj(<<>>)
  /\ UNCHANGED <<pLoading, pInFlight, pSent>>
  /\ PageFrame

\* the rest of handleSubmit or handleAction, from the answer to a request in flight
\* to the end of the finally block
ResponseArrives ==
  /\ \E i \in 1..Len(pInFlight) :
       \E k \in 1..Len(EndpointAnswers(pInFlight[i])) :
         LET sent == pInFlight[i]
             answer == EndpointAnswers(sent)[k]
             data == IF Tag(answer) = "json" THEN JSONparse(Val(answer)) ELSE Undefined
             shown == /\ Tag(answer) = "json"
                      /\ Truthy(GetProp(data, "success"))
                      /\ Truthy(GetProp(data, "ui"))
         IN /\ pInFlight' = SubSeq(pInFlight, 1, i - 1)
                              \o SubSeq(pInFlight, i + 1, Len(pInFlight))
            /\ IF shown
               THEN /\ pUI' = GetProp(data, "ui")
                    /\ pFormValues' = Obj(<<>>)
                    /\ pContext' = IF Truthy(GetProp(data, "context"))
                                   THEN GetProp(data, "context") ELSE pContext
                    /\ pHistory' = Append(pHistory,
                                          IF IsActionBody(sent) THEN "action" ELSE "query")
               ELSE UNCHANGED <<pUI, pFormValues, pContext, pHistory>>
            /\ pQuery' = IF Tag(answer) = "json" /\ ~IsActionBody(sent) THEN "" ELSE pQuery
            /\ pLastReturned' = IF Tag(answer) = "json" /\ Truthy(GetProp(data, "context"))
                                THEN GetProp(data, "context") ELSE pLastReturned
  /\ pLoading' = FALSE
  /\ UNCHANGED pSent
  /\ PageFrame

PageNext ==
  \/ TypeQuery
  \/ SubmitQuery
  \/ ChangeValue
  \/ ClickAction
  \/ StartOver
  \/ ResponseArrives

PageSpec == PageInit /\ [][PageNext]_vars

(***************************************************************************)
(* The page's claims.                                                      *)
(***************************************************************************)
\* the context the request sent last carries
LastSentContext == GetProp(BodyOf(pSent[Len(pSent)]), "context")

C30_AtEveryStep ==
  /\ Len(pInFlight) <= 1
  /\ pLoading <=> Len(pInFlight) = 1

\* while a request is in flight a step sends nothing and leaves the query, the
\* context, the surface and the history alone, unless it is the arrival of the answer
C30_NoEffectWhileLoading ==
  pLoading =>
    \/ Len(pInFlight') < Len(pInFlight)
    \/ UNCHANGED <<pQuery, pContext, pUI, pLoading, pHistory, pInFlight, pSent>>

\* a request that is sent carries the context the endpoint returned last since the
\* page was started or started over, and {} when it has returned none
C30_CarriesLastContext ==
  pSent' # pSent => /\ Len(pSent') = Len(pSent) + 1
                    /\ SameValue(GetProp(BodyOf(pSent'[Len(pSent')]), "context"),
                                 pLastReturned)

\* C30: the page serializes the calls of a session: while a request is in flight
\* (isLoading true) a query submission, a button action and Start Over have no
\* effect, so at most one request is in flight, and each request carries the context
\* returned by the last completed request that returned one ({} before any, and
\* after Start Over); isLoading is false again after every request, whether it
\* succeeded, returned an error payload or threw.
C30_Serialized ==
  /\ []C30_AtEveryStep
  /\ [][C30_NoEffectWhileLoading]_vars
  /\ [][C30_CarriesLastContext]_vars

\* a third request in flight, carrying the context of two completed turns
C30_Witness ==
  /\ pLoading
  /\ Len(pSent) = 3
  /\ IsActionBody(pSent[3])
  /\ Len(Val(GetProp(LastSentContext, "conversationHistory"))) = 2

\* a request sent after one that failed carries the context returned before it
C30_WitnessAfterFailure ==
  /\ pLoading
  /\ Len(pSent) = 3
  /\ Len(Val(GetProp(LastSentContext, "conversationHistory"))) = 1
  /\ Len(pHistory) = 1
====
